---- MODULE Spec2Model ----
(***************************************************************************)
(* Generation-validation-retry pipeline of the AI B2B proposal generator.  *)
(*                                                                         *)
(*   Spec      generateProposal (retry revision, backend/src/app.js        *)
(*             301-511): one request, its provider rounds, the log and     *)
(*             proposal collections.                                       *)
(*   SpecGroq  concurrent callGroq invocations (rate-limit-aware provider  *)
(*             client) sharing the cooldown watermark, over discrete time. *)
(*                                                                         *)
(* Money is counted in thousandths of a currency unit (1.00 = 1000, one    *)
(* cent = 10), so that Math.round(x * 100) / 100 is a real rounding.       *)
(* Time is counted in ticks of 500 ms.                                     *)
(***************************************************************************)
EXTENDS Integers, Sequences, FiniteSets, TLC

VARIABLES
    \* ---- generateProposal (one run) ----
    request,            \* the parsed request handed to generateProposal
    productsDb,         \* ids of the Product documents currently stored
    pc,                 \* position of the run
    attempt,            \* loop counter of the validation loop
    allProducts,        \* result of Product.find({}) (sequence of ids)
    systemPrompt,       \* buildSystemPrompt(...)
    userPrompt,         \* buildUserPrompt(...)
    currentUserPrompt,  \* prompt of the current round
    rawContent,         \* callAI result of the current round
    model,              \* model identifier of the current round
    lastValidationError,\* last ValidationError caught by the loop
    aiData,             \* parseAndValidate result of the accepted round
    finalAllocated,     \* recomputed allocated budget
    remainingBudget,    \* budget_limit - finalAllocated
    impactAcc,          \* computeImpact: index of next item and running sums
    computedImpact,     \* computeImpact result
    aiLog,              \* AILog collection (sequence of documents)
    proposals,          \* Proposal collection (sequence of documents)
    outcome,            \* what generateProposal returned or threw
    aiCalls,            \* the callAI invocations of the run, in order
    parsed,             \* the raw contents handed to parseAndValidate, in order
    createCalls,        \* number of Proposal.create invocations of the run
    \* ---- callGroq (provider client) ----
    now,                \* Date.now() in ticks
    groqRateLimitedUntil,
    calls,              \* per invocation: position, attempt, timers, history
    \* ---- generateProposal over callGroq ----
    requestsSent        \* physical provider requests issued by the run

pipeVars == << request, productsDb, pc, attempt, allProducts, systemPrompt,
               userPrompt, currentUserPrompt, rawContent, model,
               lastValidationError, aiData, finalAllocated, remainingBudget,
               impactAcc, computedImpact, aiLog, proposals, outcome, aiCalls,
               parsed, createCalls >>

groqVars == << now, groqRateLimitedUntil, calls >>

runVars == << requestsSent >>

vars == << request, productsDb, pc, attempt, allProducts, systemPrompt,
           userPrompt, currentUserPrompt, rawContent, model,
           lastValidationError, aiData, finalAllocated, remainingBudget,
           impactAcc, computedImpact, aiLog, proposals, outcome, aiCalls,
           parsed, createCalls, now, groqRateLimitedUntil, calls,
           requestsSent >>

----------------------------------------------------------------------------
\* Generic helpers

Max(a, b) == IF a >= b THEN a ELSE b

Abs(x) == IF x >= 0 THEN x ELSE -x

MinOf(S) == CHOOSE x \in S : \A y \in S : x <= y

\* Math.round(x * 100) / 100 on thousandths: round half up to a whole cent.
Round2(x) == ((x + 5) \div 10) * 10

NoValue == [none |-> TRUE]

----------------------------------------------------------------------------
\* Catalog (Product collection)

ProductDocs ==
    [ A |-> [name |-> "Tote", category |-> "Bags", unit_price |-> 2000,
             plastic_saved_per_unit |-> 300, carbon_avoided_per_unit |-> 1200],
      B |-> [name |-> "Bottle", category |-> "Drinkware", unit_price |-> 3000,
             plastic_saved_per_unit |-> 500, carbon_avoided_per_unit |-> 2100] ]

ProductIds == DOMAIN ProductDocs

\* Product.find({}) returns the stored documents in storage order.
CatalogOrder == << "A", "B" >>

FindAll(db) == SelectSeq(CatalogOrder, LAMBDA id : id \in db)

----------------------------------------------------------------------------
\* Prompt Builder (pure)

RECURSIVE InsertByPrice(_, _)
InsertByPrice(sorted, id) ==
    IF sorted = << >> THEN << id >>
    ELSE IF ProductDocs[id].unit_price < ProductDocs[Head(sorted)].unit_price
         THEN << id >> \o sorted
         ELSE << Head(sorted) >> \o InsertByPrice(Tail(sorted), id)

\* [...pool].sort((a, b) => a.unit_price - b.unit_price): a stable sort.
RECURSIVE SortByPrice(_)
SortByPrice(ids) ==
    IF ids = << >> THEN << >>
    ELSE InsertByPrice(SortByPrice(SubSeq(ids, 1, Len(ids) - 1)), ids[Len(ids)])

\* selectCatalogProducts: affordable products (all of them when none is
\* affordable), cheapest first, one per category first and the others after.
\* config.ai.groq.maxCatalogItems is not set by the configuration, so neither
\* pass is cut short.
selectCatalogProducts(products, budgetLimit) ==
    LET affordable == SelectSeq(products,
                          LAMBDA id : ProductDocs[id].unit_price <= budgetLimit)
        pool       == IF Len(affordable) > 0 THEN affordable ELSE products
        byPrice    == SortByPrice(pool)
        firstOfCat(i) == \A j \in 1..(i - 1) :
                            ProductDocs[byPrice[j]].category
                                # ProductDocs[byPrice[i]].category
        idx1 == { i \in 1..Len(byPrice) : firstOfCat(i) }
        idxs  == [i \in 1..Len(byPrice) |-> i]
        order == SelectSeq(idxs, LAMBDA i : i \in idx1)
                    \o SelectSeq(idxs, LAMBDA i : i \notin idx1)
    IN  [k \in 1..Len(order) |-> byPrice[order[k]]]

buildSystemPrompt(products, budgetLimit) ==
    LET sel == selectCatalogProducts(products, budgetLimit)
    IN  [ budget |-> budgetLimit,
          catalogLines |->
            [k \in 1..Len(sel) |->
                [ id |-> sel[k],
                  name |-> ProductDocs[sel[k]].name,
                  category |-> ProductDocs[sel[k]].category,
                  unit_price |-> ProductDocs[sel[k]].unit_price,
                  maxQty |-> budgetLimit \div ProductDocs[sel[k]].unit_price ]] ]

\* The user prompt is a text; the model keeps its parts: the rendered request
\* and, after it, the feedback paragraphs appended to it.
buildUserPrompt(budgetLimit, categoryFocus, sustainabilityPriority, clientName) ==
    [ budget     |-> budgetLimit,
      client     |-> IF clientName = "" THEN "N/A" ELSE clientName,
      categories |-> IF Len(categoryFocus) > 0 THEN categoryFocus ELSE << "N/A" >>,
      priority   |-> IF sustainabilityPriority = "" THEN "N/A"
                     ELSE sustainabilityPriority,
      feedback   |-> << >> ]

\* userPrompt + "YOUR PREVIOUS RESPONSE WAS REJECTED. ERROR: ..." + budget reminder
WithFeedback(prompt, message, budgetLimit) ==
    [prompt EXCEPT !.feedback =
        Append(@, [error |-> message, budget_reminder |-> budgetLimit])]

----------------------------------------------------------------------------
\* Output Verifier

TopKeys == { "proposal_summary", "total_budget_limit", "allocated_budget",
             "products", "impact_summary", "confidence_score" }

ItemKeys == { "product_id", "name", "quantity", "unit_price", "total_cost" }

Reason(kind, id, name, said, expected, issues) ==
    [ kind |-> kind, id |-> id, name |-> name, said |-> said,
      expected |-> expected, issues |-> issues ]

\* JSON.parse(rawContent): only a bare JSON document parses.
JsonParse(raw) ==
    IF raw.fmt = "json" THEN [ok |-> TRUE, value |-> raw.doc] ELSE [ok |-> FALSE]

\* AIProductSchema: z.object (unknown keys are stripped, not refused).
ItemIssues(item, i) ==
    LET has(k) == k \in DOMAIN item IN
    { << "products", i, k >> : k \in ItemKeys \ DOMAIN item }
    \cup (IF has("product_id") /\ item.product_id = ""
          THEN { << "products", i, "product_id" >> } ELSE {})
    \cup (IF has("name") /\ item.name = ""
          THEN { << "products", i, "name" >> } ELSE {})
    \cup (IF has("quantity") /\ item.quantity <= 0
          THEN { << "products", i, "quantity" >> } ELSE {})
    \cup (IF has("unit_price") /\ item.unit_price < 0
          THEN { << "products", i, "unit_price" >> } ELSE {})
    \cup (IF has("total_cost") /\ item.total_cost < 0
          THEN { << "products", i, "total_cost" >> } ELSE {})

\* AIResponseSchema: z.object(...).strict()
SchemaIssues(doc) ==
    LET has(k) == k \in DOMAIN doc IN
    { << k, 0, "" >> : k \in TopKeys \ DOMAIN doc }
    \cup { << k, 0, "unrecognized" >> : k \in DOMAIN doc \ TopKeys }
    \cup (IF has("proposal_summary") /\ doc.proposal_summary = ""
          THEN { << "proposal_summary", 0, "" >> } ELSE {})
    \cup (IF has("total_budget_limit") /\ doc.total_budget_limit < 0
          THEN { << "total_budget_limit", 0, "" >> } ELSE {})
    \cup (IF has("allocated_budget") /\ doc.allocated_budget < 0
          THEN { << "allocated_budget", 0, "" >> } ELSE {})
    \cup (IF has("products") /\ Len(doc.products) < 1
          THEN { << "products", 0, "" >> } ELSE {})
    \cup (IF has("products")
          THEN UNION { ItemIssues(doc.products[i], i) :
                          i \in 1..Len(doc.products) }
          ELSE {})
    \cup (IF has("impact_summary") /\ doc.impact_summary = ""
          THEN { << "impact_summary", 0, "" >> } ELSE {})
    \cup (IF has("confidence_score")
             /\ (doc.confidence_score < 0 \/ doc.confidence_score > 100)
          THEN { << "confidence_score", 0, "" >> } ELSE {})

\* zodResult.data: the parsed document, unknown line-item keys removed.
SchemaData(doc) ==
    [doc EXCEPT !.products =
        [i \in 1..Len(doc.products) |->
            [k \in ItemKeys |-> doc.products[i][k]]]]

\* Fault variant: a line whose product is not in the catalog is let through.
ItemError_UnknownAccepted(item, productMap) ==
    IF item.product_id \notin productMap
    THEN NoValue
    ELSE LET dbProduct == ProductDocs[item.product_id]
             expectedCost == Round2(item.quantity * item.unit_price)
         IN  IF item.name # dbProduct.name
             THEN Reason("NameMismatch", item.product_id, item.name, 0, 0, {})
             ELSE IF item.unit_price # dbProduct.unit_price
             THEN Reason("PriceMismatch", item.product_id, item.name,
                         item.unit_price, dbProduct.unit_price, {})
             ELSE IF Abs(item.total_cost - expectedCost) > 10
             THEN Reason("CostMismatch", item.product_id, item.name,
                         item.total_cost, expectedCost, {})
             ELSE NoValue

\* Steps 8a-8d for one line item: the reason it is refused for, or NoValue.
ItemError(item, productMap) ==
    IF item.product_id \notin productMap
    THEN Reason("ProductNotFound", item.product_id, "", 0, 0, {})
    ELSE LET dbProduct == ProductDocs[item.product_id]
             expectedCost == Round2(item.quantity * item.unit_price)
         IN  IF item.name # dbProduct.name
             THEN Reason("NameMismatch", item.product_id, item.name, 0, 0, {})
             ELSE IF item.unit_price # dbProduct.unit_price
             THEN Reason("PriceMismatch", item.product_id, item.name,
                         item.unit_price, dbProduct.unit_price, {})
             ELSE IF Abs(item.total_cost - expectedCost) > 10
             THEN Reason("CostMismatch", item.product_id, item.name,
                         item.total_cost, expectedCost, {})
             ELSE NoValue

RECURSIVE SumTotalCost(_)
SumTotalCost(items) ==
    IF items = << >> THEN 0
    ELSE items[1].total_cost + SumTotalCost(Tail(items))

\* Fault variant: the allocation tolerance does not grow with the line count.
parseAndValidate_FlatTolerance(raw, productMap, budget_limit) ==
    LET p == JsonParse(raw) IN
    IF ~p.ok
    THEN [ok |-> FALSE, error |-> Reason("NotJSON", "", "", 0, 0, {})]
    ELSE IF SchemaIssues(p.value) # {}
    THEN [ok |-> FALSE,
          error |-> Reason("SchemaViolation", "", "", 0, 0, SchemaIssues(p.value))]
    ELSE
    LET data == SchemaData(p.value)
        n    == Len(data.products)
        bad  == { i \in 1..n : ItemError(data.products[i], productMap) # NoValue }
        computedAllocated  == Round2(SumTotalCost(data.products))
        allocatedTolerance == 1000
    IN  IF bad # {}
        THEN [ok |-> FALSE,
              error |-> ItemError(data.products[MinOf(bad)], productMap)]
        ELSE IF Abs(data.allocated_budget - computedAllocated) > allocatedTolerance
        THEN [ok |-> FALSE,
              error |-> Reason("AllocatedMismatch", "", "",
                               data.allocated_budget, computedAllocated, {})]
        ELSE IF data.total_budget_limit # budget_limit
        THEN [ok |-> FALSE,
              error |-> Reason("BudgetLimitMismatch", "", "",
                               data.total_budget_limit, budget_limit, {})]
        ELSE IF computedAllocated > budget_limit
        THEN [ok |-> FALSE,
              error |-> Reason("BudgetExceeded", "", "",
                               computedAllocated, budget_limit, {})]
        ELSE [ok |-> TRUE, data |-> data]

\* parseAndValidate(rawContent, productMap, budget_limit): the validated data,
\* or the ValidationError of the first step that fails.  productMap is given
\* by its key set; the documents are those of ProductDocs.
parseAndValidate(raw, productMap, budget_limit) ==
    LET p == JsonParse(raw) IN
    IF ~p.ok
    THEN [ok |-> FALSE, error |-> Reason("NotJSON", "", "", 0, 0, {})]
    ELSE IF SchemaIssues(p.value) # {}
    THEN [ok |-> FALSE,
          error |-> Reason("SchemaViolation", "", "", 0, 0, SchemaIssues(p.value))]
    ELSE
    LET data == SchemaData(p.value)
        n    == Len(data.products)
        bad  == { i \in 1..n : ItemError(data.products[i], productMap) # NoValue }
        computedAllocated  == Round2(SumTotalCost(data.products))
        allocatedTolerance == Max(1, n) * 1000
    IN  IF bad # {}
        THEN [ok |-> FALSE,
              error |-> ItemError(data.products[MinOf(bad)], productMap)]
        ELSE IF Abs(data.allocated_budget - computedAllocated) > allocatedTolerance
        THEN [ok |-> FALSE,
              error |-> Reason("AllocatedMismatch", "", "",
                               data.allocated_budget, computedAllocated, {})]
        ELSE IF data.total_budget_limit # budget_limit
        THEN [ok |-> FALSE,
              error |-> Reason("BudgetLimitMismatch", "", "",
                               data.total_budget_limit, budget_limit, {})]
        ELSE IF computedAllocated > budget_limit
        THEN [ok |-> FALSE,
              error |-> Reason("BudgetExceeded", "", "",
                               computedAllocated, budget_limit, {})]
        ELSE [ok |-> TRUE, data |-> data]


----------------------------------------------------------------------------
\* Inputs of the pipeline run: the request and what the provider may answer

Requests ==
    { [ client_name |-> "Acme", budget_limit |-> 10000,
        preferences |-> [ category_focus |-> << "Bags" >>,
                          sustainability_priority |-> "plastic" ] ],
      [ client_name |-> "", budget_limit |-> 5000,
        preferences |-> [ category_focus |-> << >>,
                          sustainability_priority |-> "" ] ],
      [ client_name |-> "", budget_limit |-> 5005,
        preferences |-> [ category_focus |-> << >>,
                          sustainability_priority |-> "" ] ] }

Item(id, name, q, price, total) ==
    [ product_id |-> id, name |-> name, quantity |-> q, unit_price |-> price,
      total_cost |-> total ]

Doc(limit, alloc, items) ==
    [ proposal_summary |-> "summary", total_budget_limit |-> limit,
      allocated_budget |-> alloc, products |-> items,
      impact_summary |-> "impact", confidence_score |-> 85 ]

Json(doc) == [ fmt |-> "json", doc |-> doc ]

PlainText == [ fmt |-> "text", doc |-> Doc(0, 0, << >>) ]

\* What the model may answer to a request of budget b: well-formed proposals,
\* proposals whose arithmetic is off by less or by more than the tolerance, and
\* proposals that break one rule each.
RawResponses(b) ==
    { Json(Doc(b, 4000, << Item("A", "Tote", 2, 2000, 4000) >>)),
      Json(Doc(b, 4006, << Item("A", "Tote", 2, 2000, 4006) >>)),
      Json(Doc(b, 5000, << Item("A", "Tote", 1, 2000, 2000),
                           Item("B", "Bottle", 1, 3000, 3000) >>)),
      PlainText,
      Json(Doc(b, 4000, << Item("Z", "Tote", 2, 2000, 4000) >>)),
      Json(Doc(b, 6000, << Item("A", "Tote", 2, 2000, 6000) >>)),
      Json(Doc(b, 12000, << Item("A", "Tote", 6, 2000, 12000) >>)),
      Json(Doc(b + 1000, 4000, << Item("A", "Tote", 2, 2000, 4000) >>)) }

ModelIds == { "llama-3.3-70b-versatile" }

\* The errors callAI can throw: rate-limit exhaustion, or any other failure.
ProviderErrors ==
    { [ class |-> "ProviderRateLimitError",
        message |-> Reason("GroqRateLimit", "", "", 0, 0, {}),
        retryAfterMs |-> 8500 ],
      [ class |-> "Error",
        message |-> Reason("GroqApiError", "", "", 0, 0, {}) ] }

----------------------------------------------------------------------------
\* generateProposal (retry revision)

MAX_VALIDATION_RETRIES == 5

ValidationError(message) == [ class |-> "ValidationError", message |-> message ]

SystemError(kind, id) ==
    [ class |-> "Error", message |-> Reason(kind, id, "", 0, 0, {}) ]

Threw(err) == [ kind |-> "threw", error |-> err ]

Returned(value) == [ kind |-> "returned", value |-> value ]

Running == [ kind |-> "running" ]

InitPipeline ==
    /\ request \in Requests
    /\ productsDb \in { {}, ProductIds }
    /\ pc = "find"
    /\ attempt = 0
    /\ allProducts = << >>
    /\ systemPrompt = NoValue
    /\ userPrompt = NoValue
    /\ currentUserPrompt = NoValue
    /\ rawContent = NoValue
    /\ model = ""
    /\ lastValidationError = NoValue
    /\ aiData = NoValue
    /\ finalAllocated = 0
    /\ remainingBudget = 0
    /\ impactAcc = NoValue
    /\ computedImpact = NoValue
    /\ aiLog = << >>
    /\ proposals = << >>
    /\ outcome = Running
    /\ aiCalls = << >>
    /\ parsed = << >>
    /\ createCalls = 0

\* `throw err` leaving generateProposal.
Throw(err) ==
    /\ pc' = "done"
    /\ outcome' = Threw(err)

\* await callAI(systemPrompt, currentUserPrompt): the call is made.
InvokeCallAI(sys, usr) ==
    aiCalls' = Append(aiCalls, [ system_prompt |-> sys, user_prompt |-> usr ])

\* Fault variant: an empty catalog is not refused.
FindReturns_NoPrecondition ==
    /\ pc = "find"
    /\ LET found == FindAll(productsDb) IN
       /\ allProducts' = found
       /\ IF FALSE
          THEN /\ Throw(SystemError("NoProducts", ""))
               /\ UNCHANGED << systemPrompt, userPrompt, currentUserPrompt,
                               attempt, aiCalls >>
          ELSE LET sys == buildSystemPrompt(found, request.budget_limit)
                   usr == buildUserPrompt(
                              request.budget_limit,
                              request.preferences.category_focus,
                              request.preferences.sustainability_priority,
                              request.client_name)
               IN  /\ systemPrompt' = sys
                   /\ userPrompt' = usr
                   /\ currentUserPrompt' = usr
                   /\ attempt' = 1
                   /\ InvokeCallAI(sys, usr)
                   /\ pc' = "callAI"
                   /\ UNCHANGED outcome
    /\ UNCHANGED << request, productsDb, rawContent, model, lastValidationError,
                    aiData, finalAllocated, remainingBudget, impactAcc,
                    computedImpact, aiLog, proposals, parsed, createCalls >>
    /\ UNCHANGED groqVars
    /\ UNCHANGED runVars

\* Step 1-3 and the first loop entry: Product.find({}) has returned.
FindReturns ==
    /\ pc = "find"
    /\ LET found == FindAll(productsDb) IN
       /\ allProducts' = found
       /\ IF Len(found) = 0
          THEN /\ Throw(SystemError("NoProducts", ""))
               /\ UNCHANGED << systemPrompt, userPrompt, currentUserPrompt,
                               attempt, aiCalls >>
          ELSE LET sys == buildSystemPrompt(found, request.budget_limit)
                   usr == buildUserPrompt(
                              request.budget_limit,
                              request.preferences.category_focus,
                              request.preferences.sustainability_priority,
                              request.client_name)
               IN  /\ systemPrompt' = sys
                   /\ userPrompt' = usr
                   /\ currentUserPrompt' = usr
                   /\ attempt' = 1
                   /\ InvokeCallAI(sys, usr)
                   /\ pc' = "callAI"
                   /\ UNCHANGED outcome
    /\ UNCHANGED << request, productsDb, rawContent, model, lastValidationError,
                    aiData, finalAllocated, remainingBudget, impactAcc,
                    computedImpact, aiLog, proposals, parsed, createCalls >>
    /\ UNCHANGED groqVars
    /\ UNCHANGED runVars

\* Fault variant: the feedback is appended to the prompt of the round before.
CatchValidationError_Accumulating(err) ==
    /\ lastValidationError' = err
    /\ IF attempt < MAX_VALIDATION_RETRIES
       THEN LET next == WithFeedback(currentUserPrompt, err.message,
                                     request.budget_limit)
            IN  /\ currentUserPrompt' = next
                /\ attempt' = attempt + 1
                /\ InvokeCallAI(systemPrompt, next)
                /\ pc' = "callAI"
                /\ UNCHANGED outcome
       ELSE /\ attempt' = attempt + 1
            /\ Throw(lastValidationError')
            /\ UNCHANGED << currentUserPrompt, aiCalls >>

\* Fault variant: the loop bound is tested with <= (one round too many).
CatchValidationError_OffByOne(err) ==
    /\ lastValidationError' = err
    /\ IF attempt <= MAX_VALIDATION_RETRIES
       THEN LET next == WithFeedback(userPrompt, err.message,
                                     request.budget_limit)
            IN  /\ currentUserPrompt' = next
                /\ attempt' = attempt + 1
                /\ InvokeCallAI(systemPrompt, next)
                /\ pc' = "callAI"
                /\ UNCHANGED outcome
       ELSE /\ attempt' = attempt + 1
            /\ Throw(lastValidationError')
            /\ UNCHANGED << currentUserPrompt, aiCalls >>

\* Fault variant: the retry resends the original prompt, without feedback.
CatchValidationError_NoFeedback(err) ==
    /\ lastValidationError' = err
    /\ IF attempt < MAX_VALIDATION_RETRIES
       THEN /\ currentUserPrompt' = userPrompt
            /\ attempt' = attempt + 1
            /\ InvokeCallAI(systemPrompt, userPrompt)
            /\ pc' = "callAI"
            /\ UNCHANGED outcome
       ELSE /\ attempt' = attempt + 1
            /\ Throw(lastValidationError')
            /\ UNCHANGED << currentUserPrompt, aiCalls >>

\* Fault variant: only the first rejection is remembered (and thrown at the end).
CatchValidationError_FirstError(err) ==
    /\ lastValidationError' =
          (IF lastValidationError = NoValue THEN err ELSE lastValidationError)
    /\ IF attempt < MAX_VALIDATION_RETRIES
       THEN LET next == WithFeedback(userPrompt, err.message,
                                     request.budget_limit)
            IN  /\ currentUserPrompt' = next
                /\ attempt' = attempt + 1
                /\ InvokeCallAI(systemPrompt, next)
                /\ pc' = "callAI"
                /\ UNCHANGED outcome
       ELSE /\ attempt' = attempt + 1
            /\ Throw(lastValidationError')
            /\ UNCHANGED << currentUserPrompt, aiCalls >>

\* The catch of the verification block, for a ValidationError.
CatchValidationError(err) ==
    /\ lastValidationError' = err
    /\ IF attempt < MAX_VALIDATION_RETRIES
       THEN LET next == WithFeedback(userPrompt, err.message,
                                     request.budget_limit)
            IN  /\ currentUserPrompt' = next
                /\ attempt' = attempt + 1
                /\ InvokeCallAI(systemPrompt, next)
                /\ pc' = "callAI"
                /\ UNCHANGED outcome
       ELSE /\ attempt' = attempt + 1
            /\ Throw(lastValidationError')
            /\ UNCHANGED << currentUserPrompt, aiCalls >>

\* Step 4: callAI resolved; step 5 starts: AILog.create is awaited.
CallAIReturns ==
    /\ pc = "callAI"
    /\ \E raw \in RawResponses(request.budget_limit), m \in ModelIds :
          /\ rawContent' = raw
          /\ model' = m
    /\ pc' = "log"
    /\ UNCHANGED << request, productsDb, attempt, allProducts, systemPrompt,
                    userPrompt, currentUserPrompt, lastValidationError, aiData,
                    finalAllocated, remainingBudget, impactAcc, computedImpact,
                    aiLog, proposals, outcome, aiCalls, parsed, createCalls >>
    /\ UNCHANGED groqVars
    /\ UNCHANGED runVars

\* Fault variant: a provider failure is handled like a rejected response.
CallAIFails_AsRejection ==
    /\ pc = "callAI"
    /\ \E err \in ProviderErrors :
          CatchValidationError(ValidationError(err.message))
    /\ UNCHANGED << request, productsDb, allProducts, systemPrompt, userPrompt,
                    rawContent, model, aiData, finalAllocated, remainingBudget,
                    impactAcc, computedImpact, aiLog, proposals, parsed,
                    createCalls >>
    /\ UNCHANGED groqVars
    /\ UNCHANGED runVars

\* Step 4: callAI rejected; the error leaves generateProposal as it is.
CallAIFails ==
    /\ pc = "callAI"
    /\ \E err \in ProviderErrors : Throw(err)
    /\ UNCHANGED << request, productsDb, attempt, allProducts, systemPrompt,
                    userPrompt, currentUserPrompt, rawContent, model,
                    lastValidationError, aiData, finalAllocated,
                    remainingBudget, impactAcc, computedImpact, aiLog,
                    proposals, aiCalls, parsed, createCalls >>
    /\ UNCHANGED groqVars
    /\ UNCHANGED runVars

\* productMap: _id -> product document, built from the fetched products.
productMap == { allProducts[i] : i \in 1..Len(allProducts) }

\* Steps 6-9 and the start of step 10, run once the log write has resolved.
VerifyLogged ==
    LET res == parseAndValidate(rawContent, productMap, request.budget_limit)
    IN  /\ parsed' = Append(parsed, rawContent)
        /\ IF res.ok
           THEN LET alloc == Round2(SumTotalCost(res.data.products)) IN
                /\ aiData' = res.data
                /\ finalAllocated' = alloc
                /\ remainingBudget' = Round2(request.budget_limit - alloc)
                /\ impactAcc' = [ i |-> 1, totalPlasticSaved |-> 0,
                                  totalCarbonAvoided |-> 0 ]
                /\ pc' = "impact"
                /\ UNCHANGED << lastValidationError, currentUserPrompt,
                                attempt, aiCalls, outcome >>
           ELSE /\ CatchValidationError(ValidationError(res.error))
                /\ UNCHANGED << aiData, finalAllocated, remainingBudget,
                                impactAcc >>

\* Fault variant: the log entry holds the prompt as first built, not the one
\* sent in the round.
AILogCreateOk_OriginalPrompt ==
    /\ pc = "log"
    /\ aiLog' = Append(aiLog, [ system_prompt |-> systemPrompt,
                                user_prompt |-> userPrompt,
                                raw_response |-> rawContent ])
    /\ VerifyLogged
    /\ UNCHANGED << request, productsDb, allProducts, systemPrompt, userPrompt,
                    rawContent, model, computedImpact, proposals, createCalls >>
    /\ UNCHANGED groqVars
    /\ UNCHANGED runVars

\* Step 5: AILog.create resolved; the round goes on to verification.
AILogCreateOk ==
    /\ pc = "log"
    /\ aiLog' = Append(aiLog, [ system_prompt |-> systemPrompt,
                                user_prompt |-> currentUserPrompt,
                                raw_response |-> rawContent ])
    /\ VerifyLogged
    /\ UNCHANGED << request, productsDb, allProducts, systemPrompt, userPrompt,
                    rawContent, model, computedImpact, proposals, createCalls >>
    /\ UNCHANGED groqVars
    /\ UNCHANGED runVars

\* Fault variant: the failed log write is suppressed and the round goes on.
AILogCreateFails_Swallowed ==
    /\ pc = "log"
    /\ VerifyLogged
    /\ UNCHANGED << request, productsDb, allProducts, systemPrompt, userPrompt,
                    rawContent, model, computedImpact, aiLog, proposals,
                    createCalls >>
    /\ UNCHANGED groqVars
    /\ UNCHANGED runVars

\* Fault variant: the failed log write is thrown as a ValidationError inside
\* the verification block, so the loop retries it.
AILogCreateFails_AsRejection ==
    /\ pc = "log"
    /\ CatchValidationError(
          ValidationError(Reason("LoggingFailure", "", "", 0, 0, {})))
    /\ UNCHANGED << request, productsDb, allProducts, systemPrompt, userPrompt,
                    rawContent, model, aiData, finalAllocated, remainingBudget,
                    impactAcc, computedImpact, aiLog, proposals, parsed,
                    createCalls >>
    /\ UNCHANGED groqVars
    /\ UNCHANGED runVars

\* Step 5: AILog.create rejected: "Logging failure - proposal aborted".
AILogCreateFails ==
    /\ pc = "log"
    /\ Throw(SystemError("LoggingFailure", ""))
    /\ UNCHANGED << request, productsDb, attempt, allProducts, systemPrompt,
                    userPrompt, currentUserPrompt, rawContent, model,
                    lastValidationError, aiData, finalAllocated,
                    remainingBudget, impactAcc, computedImpact, aiLog,
                    proposals, aiCalls, parsed, createCalls >>
    /\ UNCHANGED groqVars
    /\ UNCHANGED runVars


\* Fault variant: the proposal is created before the impact is computed, so an
\* impact failure comes after the persistence write.
ComputeImpactStep_CreateFirst ==
    /\ pc = "impact"
    /\ LET item == aiData.products[impactAcc.i] IN
       IF item.product_id \notin productsDb
       THEN /\ Throw(SystemError("ImpactProductNotFound", item.product_id))
            /\ createCalls' = createCalls + 1
            /\ UNCHANGED << impactAcc, computedImpact >>
       ELSE /\ impactAcc' = [ impactAcc EXCEPT !.i = @ + 1 ]
            /\ IF impactAcc.i < Len(aiData.products)
               THEN UNCHANGED << pc, outcome, computedImpact, createCalls >>
               ELSE /\ computedImpact' = [ total_plastic_saved |-> 0,
                                           total_carbon_avoided |-> 0 ]
                    /\ createCalls' = createCalls + 1
                    /\ pc' = "create"
                    /\ UNCHANGED outcome
    /\ UNCHANGED << request, productsDb, attempt, allProducts, systemPrompt,
                    userPrompt, currentUserPrompt, rawContent, model,
                    lastValidationError, aiData, finalAllocated,
                    remainingBudget, aiLog, proposals, aiCalls, parsed >>
    /\ UNCHANGED groqVars
    /\ UNCHANGED runVars

\* Fault variant: a product missing at computation time is handled like a
\* rejected response, and another round is started.
ComputeImpactStep_AsRejection ==
    /\ pc = "impact"
    /\ LET item == aiData.products[impactAcc.i] IN
       IF item.product_id \notin productsDb
       THEN /\ CatchValidationError(ValidationError(
                    Reason("ImpactProductNotFound", item.product_id, "",
                           0, 0, {})))
            /\ UNCHANGED << impactAcc, computedImpact, createCalls >>
       ELSE LET dbProduct == ProductDocs[item.product_id]
                plastic == impactAcc.totalPlasticSaved
                             + dbProduct.plastic_saved_per_unit * item.quantity
                carbon  == impactAcc.totalCarbonAvoided
                             + dbProduct.carbon_avoided_per_unit * item.quantity
            IN  IF impactAcc.i < Len(aiData.products)
                THEN /\ impactAcc' = [ i |-> impactAcc.i + 1,
                                       totalPlasticSaved |-> plastic,
                                       totalCarbonAvoided |-> carbon ]
                     /\ UNCHANGED << pc, outcome, computedImpact, createCalls, attempt,
                                     currentUserPrompt, lastValidationError,
                                     aiCalls >>
                ELSE /\ impactAcc' = [ i |-> impactAcc.i + 1,
                                       totalPlasticSaved |-> plastic,
                                       totalCarbonAvoided |-> carbon ]
                     /\ computedImpact' =
                            [ total_plastic_saved |-> Round2(plastic),
                              total_carbon_avoided |-> Round2(carbon) ]
                     /\ createCalls' = createCalls + 1
                     /\ pc' = "create"
                     /\ UNCHANGED << outcome, attempt, currentUserPrompt,
                                     lastValidationError, aiCalls >>
    /\ UNCHANGED << request, productsDb, allProducts, systemPrompt,
                    userPrompt, rawContent, model, aiData, finalAllocated,
                    remainingBudget, aiLog, proposals, parsed >>
    /\ UNCHANGED groqVars
    /\ UNCHANGED runVars

\* Step 10, one iteration of computeImpact: Product.findById(item.product_id)
\* has resolved against the collection as it is now.  After the last item the
\* totals are rounded and step 11 starts: Proposal.create is awaited.
ComputeImpactStep ==
    /\ pc = "impact"
    /\ LET item == aiData.products[impactAcc.i] IN
       IF item.product_id \notin productsDb
       THEN /\ Throw(SystemError("ImpactProductNotFound", item.product_id))
            /\ UNCHANGED << impactAcc, computedImpact, createCalls >>
       ELSE LET dbProduct == ProductDocs[item.product_id]
                plastic == impactAcc.totalPlasticSaved
                             + dbProduct.plastic_saved_per_unit * item.quantity
                carbon  == impactAcc.totalCarbonAvoided
                             + dbProduct.carbon_avoided_per_unit * item.quantity
            IN  IF impactAcc.i < Len(aiData.products)
                THEN /\ impactAcc' = [ i |-> impactAcc.i + 1,
                                       totalPlasticSaved |-> plastic,
                                       totalCarbonAvoided |-> carbon ]
                     /\ UNCHANGED << pc, outcome, computedImpact, createCalls >>
                ELSE /\ impactAcc' = [ i |-> impactAcc.i + 1,
                                       totalPlasticSaved |-> plastic,
                                       totalCarbonAvoided |-> carbon ]
                     /\ computedImpact' =
                            [ total_plastic_saved |-> Round2(plastic),
                              total_carbon_avoided |-> Round2(carbon) ]
                     /\ createCalls' = createCalls + 1
                     /\ pc' = "create"
                     /\ UNCHANGED outcome
    /\ UNCHANGED << request, productsDb, attempt, allProducts, systemPrompt,
                    userPrompt, currentUserPrompt, rawContent, model,
                    lastValidationError, aiData, finalAllocated,
                    remainingBudget, aiLog, proposals, aiCalls, parsed >>
    /\ UNCHANGED groqVars
    /\ UNCHANGED runVars

\* The document handed to Proposal.create.
ProposalDoc ==
    [ client_name |-> request.client_name,
      proposal_summary |-> aiData.proposal_summary,
      total_budget_limit |-> request.budget_limit,
      allocated_budget |-> finalAllocated,
      remaining_budget |-> remainingBudget,
      products |-> aiData.products,
      impact_summary |-> aiData.impact_summary,
      confidence_score |-> aiData.confidence_score,
      computed_impact |-> computedImpact,
      ai_metadata |-> [ system_prompt |-> systemPrompt,
                        user_prompt |-> userPrompt,
                        raw_response |-> rawContent,
                        model |-> model ] ]

\* Step 11-12: Proposal.create resolved; the response is returned.
ProposalCreateOk ==
    /\ pc = "create"
    /\ proposals' = Append(proposals, ProposalDoc)
    /\ outcome' = Returned(
            [ proposal_id |-> Len(proposals) + 1,
              proposal_summary |-> aiData.proposal_summary,
              total_budget_limit |-> request.budget_limit,
              allocated_budget |-> finalAllocated,
              remaining_budget |-> remainingBudget,
              products |-> aiData.products,
              impact_summary |-> aiData.impact_summary,
              confidence_score |-> aiData.confidence_score,
              computed_impact |-> computedImpact ])
    /\ pc' = "done"
    /\ UNCHANGED << request, productsDb, attempt, allProducts, systemPrompt,
                    userPrompt, currentUserPrompt, rawContent, model,
                    lastValidationError, aiData, finalAllocated,
                    remainingBudget, impactAcc, computedImpact, aiLog, aiCalls,
                    parsed, createCalls >>
    /\ UNCHANGED groqVars
    /\ UNCHANGED runVars

\* Step 11: Proposal.create rejected (storage failure): not a ValidationError
\* of this module, so the catch rethrows it.
ProposalCreateFails ==
    /\ pc = "create"
    /\ Throw(SystemError("PersistenceFailure", ""))
    /\ UNCHANGED << request, productsDb, attempt, allProducts, systemPrompt,
                    userPrompt, currentUserPrompt, rawContent, model,
                    lastValidationError, aiData, finalAllocated,
                    remainingBudget, impactAcc, computedImpact, aiLog,
                    proposals, aiCalls, parsed, createCalls >>
    /\ UNCHANGED groqVars
    /\ UNCHANGED runVars

\* Another client of the store deletes a product while the run awaits
\* computeImpact (the catalog is not owned by the pipeline).
RemoveProduct ==
    /\ pc = "impact"
    /\ \E id \in productsDb : productsDb' = productsDb \ { id }
    /\ UNCHANGED << request, pc, attempt, allProducts, systemPrompt,
                    userPrompt, currentUserPrompt, rawContent, model,
                    lastValidationError, aiData, finalAllocated,
                    remainingBudget, impactAcc, computedImpact, aiLog,
                    proposals, outcome, aiCalls, parsed, createCalls >>
    /\ UNCHANGED groqVars
    /\ UNCHANGED runVars

----------------------------------------------------------------------------
\* callGroq (rate-limit-aware provider client)
\*
\* Time is in ticks of 500 ms.  A timer set by sleep(ms) fires when it is due:
\* the clock does not pass a due timer, and the timers due at a tick fire
\* before a response that arrives within that tick is handled.

\* config.retry, as set by AI_MAX_RETRIES, AI_RETRY_DELAY_MS and
\* AI_RATE_LIMIT_MIN_DELAY_MS (here 500 ms and 1000 ms).
maxRetries == 3

retryDelayMs == 1

rateLimitMinDelayMs == 2

\* The "+ 500" added to every rate-limit delay.
RateLimitPad == 1

MaxTime == 6

\* The concurrent invocations, named in the order in which they are made.
CallOrder == << "c1", "c2", "c3" >>

Calls == { CallOrder[i] : i \in 1..Len(CallOrder) }

NETWORK_ERROR_CODES ==
    { "ECONNABORTED", "ENOTFOUND", "ECONNRESET", "ETIMEDOUT", "EAI_AGAIN" }

\* An axios failure: status 0 stands for "no response received"; retryAfter is
\* the Retry-After header in ticks (-1: no header); tryAgainIn is the
\* "try again in Xs" hint of the error message in ticks (-1: none).
AxiosError(status, retryAfter, tryAgainIn, code, hasRequest) ==
    [ status |-> status, retryAfter |-> retryAfter, tryAgainIn |-> tryAgainIn,
      code |-> code, request |-> hasRequest ]

\* What a request can fail with.
Failures ==
    { AxiosError(429, 4, -1, "", TRUE),
      AxiosError(429, -1, 1, "", TRUE),
      AxiosError(429, -1, -1, "", TRUE),
      AxiosError(500, -1, -1, "", TRUE),
      AxiosError(400, -1, -1, "", TRUE),
      AxiosError(0, -1, -1, "ETIMEDOUT", TRUE) }

\* throw new Error("Groq returned empty content"): a plain Error, no response,
\* no request, no code.
EmptyContentError == AxiosError(0, -1, -1, "", FALSE)

\* Fault variant: every failure is taken to be retryable.
isRetryable_All(error) == TRUE

\* Fault variant: a failure without a response is always retried.
isRetryable_NoResponse(error) ==
    IF error.status # 0
    THEN error.status = 429 \/ error.status >= 500
    ELSE TRUE

isRetryable(error) ==
    IF error.status # 0
    THEN error.status = 429 \/ error.status >= 500
    ELSE IF error.code \in NETWORK_ERROR_CODES THEN TRUE
    ELSE error.request

\* Fault variant: the hint of the response is not read.
parseRetryAfterMs_Ignored(error) == 0

\* parseRetryAfterMs: the Retry-After header when it is a positive number, else
\* the hint in the message when it is positive, else null (0 here).
parseRetryAfterMs(error) ==
    IF error.retryAfter # -1 /\ error.retryAfter > 0 THEN error.retryAfter
    ELSE IF error.tryAgainIn # -1 /\ error.tryAgainIn > 0 THEN error.tryAgainIn
    ELSE 0

\* No error caught yet.
NoError == AxiosError(-1, -1, -1, "", FALSE)

\* The retry hint a response carries, in ticks (0: none): the Retry-After
\* header, else the "try again in Xs" of the error message.
RetryHint(error) ==
    IF error.retryAfter > 0 THEN error.retryAfter
    ELSE IF error.tryAgainIn > 0 THEN error.tryAgainIn
    ELSE 0

\* The time until which the hint of error asks callers to wait, when error
\* is a 429 with a hint caught now (0 otherwise).
HintDeadline(error) ==
    IF error.status = 429 /\ RetryHint(error) > 0
    THEN now + RetryHint(error)
    ELSE 0

\* One invocation of callGroq: its position, the loop variable attempt, the
\* timer of its sleep, the delay computed in the catch block, the status and
\* the class of the error it threw; and, for the record, the error caught
\* last (err), the time its hint asks to wait until (hintUntil) and, while
\* the call waits for its first request, the hinted time that was in force
\* when it was invoked (startFloor).
IdleCall ==
    [ pc |-> "idle", attempt |-> 0, wakeAt |-> 0, delayMs |-> 0,
      lastStatus |-> -1, error |-> "", err |-> NoError, hintUntil |-> 0,
      startFloor |-> 0 ]

RECURSIVE MaxHintUntil(_)
MaxHintUntil(cs) ==
    IF cs = {} THEN 0
    ELSE LET c == CHOOSE x \in cs : TRUE
         IN  Max(calls[c].hintUntil, MaxHintUntil(cs \ {c}))

\* The latest time a hinted 429 received so far asks callers to wait until.
HintFloor == MaxHintUntil(Calls)

GroqParked ==
    /\ now = 0
    /\ groqRateLimitedUntil = 0
    /\ calls = [ c \in Calls |-> IdleCall ]

PipelineParked ==
    /\ request = NoValue
    /\ productsDb = {}
    /\ pc = "done"
    /\ attempt = 0
    /\ allProducts = << >>
    /\ systemPrompt = NoValue
    /\ userPrompt = NoValue
    /\ currentUserPrompt = NoValue
    /\ rawContent = NoValue
    /\ model = ""
    /\ lastValidationError = NoValue
    /\ aiData = NoValue
    /\ finalAllocated = 0
    /\ remainingBudget = 0
    /\ impactAcc = NoValue
    /\ computedImpact = NoValue
    /\ aiLog = << >>
    /\ proposals = << >>
    /\ outcome = Running
    /\ aiCalls = << >>
    /\ parsed = << >>
    /\ createCalls = 0

\* axios.post(...) is called: the physical request leaves.
IssueRequest(c, k) ==
    calls' = [ calls EXCEPT ![c] = [ IdleCall EXCEPT !.pc = "inflight",
                                                     !.attempt = k ] ]

\* No sleeping call has a timer that is due.
NoTimerDue ==
    \A c \in Calls :
        calls[c].pc \in { "cooling", "backoff" } => calls[c].wakeAt > now

\* waitForGroqCooldown(), entered at the top of the loop for attempt k: the
\* watermark is read once; the call sleeps for the time left, or goes on to
\* the request at once.
waitForGroqCooldown(c, k) ==
    LET waitMs == groqRateLimitedUntil - now IN
    IF waitMs > 0
    THEN calls' = [ calls EXCEPT ![c] = [ IdleCall EXCEPT
                                              !.pc = "cooling",
                                              !.attempt = k,
                                              !.wakeAt = now + waitMs,
                                              !.err = calls[c].err,
                                              !.hintUntil = calls[c].hintUntil,
                                              !.startFloor =
                                                  IF k = 1 THEN HintFloor
                                                  ELSE 0 ] ]
    ELSE IssueRequest(c, k)

\* callGroq is invoked.
StartCall(c) ==
    /\ calls[c].pc = "idle"
    /\ \A i \in 1..Len(CallOrder) :
          CallOrder[i] = c =>
              \A j \in 1..(i - 1) : calls[CallOrder[j]].pc # "idle"
    /\ waitForGroqCooldown(c, 1)
    /\ UNCHANGED << now, groqRateLimitedUntil >>
    /\ UNCHANGED pipeVars
    /\ UNCHANGED runVars

\* The sleep of waitForGroqCooldown is over: the request is issued.
CooldownElapsed(c) ==
    /\ calls[c].pc = "cooling"
    /\ now >= calls[c].wakeAt
    /\ IssueRequest(c, calls[c].attempt)
    /\ UNCHANGED << now, groqRateLimitedUntil >>
    /\ UNCHANGED pipeVars
    /\ UNCHANGED runVars

\* The response carries content: callGroq returns it.
ResponseOk(c) ==
    /\ calls[c].pc = "inflight"
    /\ NoTimerDue
    /\ calls' = [ calls EXCEPT ![c].pc = "returned", ![c].lastStatus = 200 ]
    /\ UNCHANGED << now, groqRateLimitedUntil >>
    /\ UNCHANGED pipeVars
    /\ UNCHANGED runVars

\* Fault variant: the watermark is overwritten by the newly computed one.
CatchGroqError_NoMax(c, err) ==
    LET k == calls[c].attempt IN
    IF err.status = 429
    THEN LET parsedDelay == parseRetryAfterMs(err)
             baseDelay   == retryDelayMs * k
             delayMs     == Max(IF parsedDelay # 0 THEN parsedDelay
                                ELSE baseDelay, rateLimitMinDelayMs)
                              + RateLimitPad
         IN  /\ groqRateLimitedUntil' = now + delayMs
             /\ IF k < maxRetries
                THEN calls' = [ calls EXCEPT ![c].pc = "backoff",
                                             ![c].wakeAt = now + delayMs,
                                             ![c].delayMs = delayMs,
                                             ![c].lastStatus = err.status,
                                             ![c].err = err,
                                             ![c].hintUntil = HintDeadline(err) ]
                ELSE calls' = [ calls EXCEPT ![c].pc = "failed",
                                             ![c].wakeAt = 0,
                                             ![c].delayMs = delayMs,
                                             ![c].lastStatus = err.status,
                                             ![c].err = err,
                                             ![c].hintUntil = HintDeadline(err),
                                             ![c].error = "ProviderRateLimitError" ]
    ELSE /\ UNCHANGED groqRateLimitedUntil
         /\ IF isRetryable(err) /\ k < maxRetries
            THEN calls' = [ calls EXCEPT ![c].pc = "backoff",
                                         ![c].wakeAt = now + retryDelayMs * k,
                                         ![c].delayMs = retryDelayMs * k,
                                         ![c].lastStatus = err.status,
                                         ![c].err = err,
                                         ![c].hintUntil = HintDeadline(err) ]
            ELSE calls' = [ calls EXCEPT ![c].pc = "failed",
                                         ![c].wakeAt = 0,
                                         ![c].delayMs = 0,
                                         ![c].lastStatus = err.status,
                                         ![c].err = err,
                                         ![c].hintUntil = HintDeadline(err),
                                         ![c].error = "Error" ]

\* Fault variant: a 429 on the last attempt is thrown as the generic error.
CatchGroqError_GenericOnExhaust(c, err) ==
    LET k == calls[c].attempt IN
    IF err.status = 429
    THEN LET parsedDelay == parseRetryAfterMs(err)
             baseDelay   == retryDelayMs * k
             delayMs     == Max(IF parsedDelay # 0 THEN parsedDelay
                                ELSE baseDelay, rateLimitMinDelayMs)
                              + RateLimitPad
         IN  /\ groqRateLimitedUntil' = Max(groqRateLimitedUntil, now + delayMs)
             /\ IF k < maxRetries
                THEN calls' = [ calls EXCEPT ![c].pc = "backoff",
                                             ![c].wakeAt = now + delayMs,
                                             ![c].delayMs = delayMs,
                                             ![c].lastStatus = err.status,
                                             ![c].err = err,
                                             ![c].hintUntil = HintDeadline(err) ]
                ELSE calls' = [ calls EXCEPT ![c].pc = "failed",
                                             ![c].wakeAt = 0,
                                             ![c].delayMs = 0,
                                             ![c].lastStatus = err.status,
                                             ![c].err = err,
                                             ![c].hintUntil = HintDeadline(err),
                                             ![c].error = "Error" ]
    ELSE /\ UNCHANGED groqRateLimitedUntil
         /\ IF isRetryable(err) /\ k < maxRetries
            THEN calls' = [ calls EXCEPT ![c].pc = "backoff",
                                         ![c].wakeAt = now + retryDelayMs * k,
                                         ![c].delayMs = retryDelayMs * k,
                                         ![c].lastStatus = err.status,
                                         ![c].err = err,
                                         ![c].hintUntil = HintDeadline(err) ]
            ELSE calls' = [ calls EXCEPT ![c].pc = "failed",
                                         ![c].wakeAt = 0,
                                         ![c].delayMs = 0,
                                         ![c].lastStatus = err.status,
                                         ![c].err = err,
                                         ![c].hintUntil = HintDeadline(err),
                                         ![c].error = "Error" ]

\* Fault variant: the backoff of a retryable failure does not grow with the
\* attempt number.
CatchGroqError_FlatBackoff(c, err) ==
    LET k == calls[c].attempt IN
    IF err.status = 429
    THEN LET parsedDelay == parseRetryAfterMs(err)
             baseDelay   == retryDelayMs * k
             delayMs     == Max(IF parsedDelay # 0 THEN parsedDelay
                                ELSE baseDelay, rateLimitMinDelayMs)
                              + RateLimitPad
         IN  /\ groqRateLimitedUntil' = Max(groqRateLimitedUntil, now + delayMs)
             /\ IF k < maxRetries
                THEN calls' = [ calls EXCEPT ![c].pc = "backoff",
                                             ![c].wakeAt = now + delayMs,
                                             ![c].delayMs = delayMs,
                                             ![c].lastStatus = err.status,
                                             ![c].err = err,
                                             ![c].hintUntil = HintDeadline(err) ]
                ELSE calls' = [ calls EXCEPT ![c].pc = "failed",
                                             ![c].wakeAt = 0,
                                             ![c].delayMs = delayMs,
                                             ![c].lastStatus = err.status,
                                             ![c].err = err,
                                             ![c].hintUntil = HintDeadline(err),
                                             ![c].error = "ProviderRateLimitError" ]
    ELSE /\ UNCHANGED groqRateLimitedUntil
         /\ IF isRetryable(err) /\ k < maxRetries
            THEN calls' = [ calls EXCEPT ![c].pc = "backoff",
                                         ![c].wakeAt = now + retryDelayMs,
                                         ![c].delayMs = retryDelayMs,
                                         ![c].lastStatus = err.status,
                                         ![c].err = err,
                                         ![c].hintUntil = HintDeadline(err) ]
            ELSE calls' = [ calls EXCEPT ![c].pc = "failed",
                                         ![c].wakeAt = 0,
                                         ![c].delayMs = 0,
                                         ![c].lastStatus = err.status,
                                         ![c].err = err,
                                         ![c].hintUntil = HintDeadline(err),
                                         ![c].error = "Error" ]

\* Fault variant: the watermark is extended only by a 429 that is retried.
CatchGroqError_RetryOnlyMark(c, err) ==
    LET k == calls[c].attempt IN
    IF err.status = 429
    THEN LET parsedDelay == parseRetryAfterMs(err)
             baseDelay   == retryDelayMs * k
             delayMs     == Max(IF parsedDelay # 0 THEN parsedDelay
                                ELSE baseDelay, rateLimitMinDelayMs)
                              + RateLimitPad
         IN  /\ groqRateLimitedUntil' =
                    IF k < maxRetries
                    THEN Max(groqRateLimitedUntil, now + delayMs)
                    ELSE groqRateLimitedUntil
             /\ IF k < maxRetries
                THEN calls' = [ calls EXCEPT ![c].pc = "backoff",
                                             ![c].wakeAt = now + delayMs,
                                             ![c].delayMs = delayMs,
                                             ![c].lastStatus = err.status,
                                             ![c].err = err,
                                             ![c].hintUntil = HintDeadline(err) ]
                ELSE calls' = [ calls EXCEPT ![c].pc = "failed",
                                             ![c].wakeAt = 0,
                                             ![c].delayMs = delayMs,
                                             ![c].lastStatus = err.status,
                                             ![c].err = err,
                                             ![c].hintUntil = HintDeadline(err),
                                             ![c].error = "ProviderRateLimitError" ]
    ELSE /\ UNCHANGED groqRateLimitedUntil
         /\ IF isRetryable(err) /\ k < maxRetries
            THEN calls' = [ calls EXCEPT ![c].pc = "backoff",
                                         ![c].wakeAt = now + retryDelayMs * k,
                                         ![c].delayMs = retryDelayMs * k,
                                         ![c].lastStatus = err.status,
                                         ![c].err = err,
                                         ![c].hintUntil = HintDeadline(err) ]
            ELSE calls' = [ calls EXCEPT ![c].pc = "failed",
                                         ![c].wakeAt = 0,
                                         ![c].delayMs = 0,
                                         ![c].lastStatus = err.status,
                                         ![c].err = err,
                                         ![c].hintUntil = HintDeadline(err),
                                         ![c].error = "Error" ]

\* The catch block of callGroq, for the error err of attempt calls[c].attempt.
CatchGroqError(c, err) ==
    LET k == calls[c].attempt IN
    IF err.status = 429
    THEN LET parsedDelay == parseRetryAfterMs(err)
             baseDelay   == retryDelayMs * k
             delayMs     == Max(IF parsedDelay # 0 THEN parsedDelay
                                ELSE baseDelay, rateLimitMinDelayMs)
                              + RateLimitPad
         IN  /\ groqRateLimitedUntil' = Max(groqRateLimitedUntil, now + delayMs)
             /\ IF k < maxRetries
                THEN calls' = [ calls EXCEPT ![c].pc = "backoff",
                                             ![c].wakeAt = now + delayMs,
                                             ![c].delayMs = delayMs,
                                             ![c].lastStatus = err.status,
                                             ![c].err = err,
                                             ![c].hintUntil = HintDeadline(err) ]
                ELSE calls' = [ calls EXCEPT ![c].pc = "failed",
                                             ![c].wakeAt = 0,
                                             ![c].delayMs = delayMs,
                                             ![c].lastStatus = err.status,
                                             ![c].err = err,
                                             ![c].hintUntil = HintDeadline(err),
                                             ![c].error = "ProviderRateLimitError" ]
    ELSE /\ UNCHANGED groqRateLimitedUntil
         /\ IF isRetryable(err) /\ k < maxRetries
            THEN calls' = [ calls EXCEPT ![c].pc = "backoff",
                                         ![c].wakeAt = now + retryDelayMs * k,
                                         ![c].delayMs = retryDelayMs * k,
                                         ![c].lastStatus = err.status,
                                         ![c].err = err,
                                         ![c].hintUntil = HintDeadline(err) ]
            ELSE calls' = [ calls EXCEPT ![c].pc = "failed",
                                         ![c].wakeAt = 0,
                                         ![c].delayMs = 0,
                                         ![c].lastStatus = err.status,
                                         ![c].err = err,
                                         ![c].hintUntil = HintDeadline(err),
                                         ![c].error = "Error" ]

\* The request failed (an HTTP error status, or no response at all).
ResponseFails(c) ==
    /\ calls[c].pc = "inflight"
    /\ NoTimerDue
    /\ \E err \in Failures : CatchGroqError(c, err)
    /\ UNCHANGED now
    /\ UNCHANGED pipeVars
    /\ UNCHANGED runVars

\* The response is a success without content.
ResponseEmpty(c) ==
    /\ calls[c].pc = "inflight"
    /\ NoTimerDue
    /\ CatchGroqError(c, EmptyContentError)
    /\ UNCHANGED now
    /\ UNCHANGED pipeVars
    /\ UNCHANGED runVars

\* The sleep before a retry is over: the loop goes to its next attempt.
BackoffElapsed(c) ==
    /\ calls[c].pc = "backoff"
    /\ now >= calls[c].wakeAt
    /\ waitForGroqCooldown(c, calls[c].attempt + 1)
    /\ UNCHANGED << now, groqRateLimitedUntil >>
    /\ UNCHANGED pipeVars
    /\ UNCHANGED runVars

\* Time passes.  Responses in flight took this tick at least.
Tick ==
    /\ now < MaxTime
    /\ NoTimerDue
    /\ now' = now + 1
    /\ UNCHANGED << groqRateLimitedUntil, calls >>
    /\ UNCHANGED pipeVars
    /\ UNCHANGED runVars

InitGroq == PipelineParked /\ GroqParked /\ requestsSent = 0

NextGroq ==
    \/ \E c \in Calls : StartCall(c)
    \/ \E c \in Calls : CooldownElapsed(c)
    \/ \E c \in Calls : ResponseOk(c)
    \/ \E c \in Calls : ResponseFails(c)
    \/ \E c \in Calls : ResponseEmpty(c)
    \/ \E c \in Calls : BackoffElapsed(c)
    \/ Tick

SpecGroq == InitGroq /\ [][NextGroq]_vars

----------------------------------------------------------------------------

Init == InitPipeline /\ GroqParked /\ requestsSent = 0

Next ==
    \/ FindReturns
    \/ CallAIReturns
    \/ CallAIFails
    \/ AILogCreateOk
    \/ AILogCreateFails
    \/ ComputeImpactStep
    \/ ProposalCreateOk
    \/ ProposalCreateFails
    \/ RemoveProduct

Spec == Init /\ [][Next]_vars

----------------------------------------------------------------------------
\* The HTTP boundary: generate(req, res) of the controller, in its two
\* revisions, around generateProposal.

\* A value of req.body.budget_limit: a finite number, or something else
\* ("undefined" when the key is missing).
Num(v) == [ type |-> "number", v |-> v ]

NotANumber(type) == [ type |-> type, v |-> 0 ]

BudgetLimitValues ==
    { Num(r.budget_limit) : r \in Requests }
    \cup { Num(0), Num(-1000),
           NotANumber("undefined"), NotANumber("string"), NotANumber("null"),
           NotANumber("Infinity"), NotANumber("NaN") }

\* Request bodies: those of Requests, with every budget_limit value.
Bodies ==
    { [ r EXCEPT !.budget_limit = b ] : r \in Requests, b \in BudgetLimitValues }

\* What z.object yields for a body that passed: the declared keys only (the
\* object is not strict, an undeclared key is dropped), client_name ""
\* when the body has none, and preferences with each of its two keys
\* defaulted ([] and ""); a missing preferences is parsed from {} (the
\* required_error / invalid_type_error options are those of zod 3, whose
\* default() parses the default value through the inner schema).
PreferencesSchema(prefs, given) ==
    [ category_focus |->
        IF "category_focus" \in given THEN prefs.category_focus ELSE << >>,
      sustainability_priority |->
        IF "sustainability_priority" \in given
        THEN prefs.sustainability_priority ELSE "" ]

ParsedRequest(body, budget) ==
    [ client_name |->
        IF "client_name" \in DOMAIN body THEN body.client_name ELSE "",
      budget_limit |-> budget,
      preferences |->
        IF "preferences" \in DOMAIN body
        THEN PreferencesSchema(body.preferences, DOMAIN body.preferences)
        ELSE PreferencesSchema(NoValue, {}) ]

\* Fault variant: .nonnegative() in place of .positive().
ProposalRequestSchema_ZeroAccepted(body) ==
    LET b == body.budget_limit IN
    IF b.type \notin { "number", "Infinity" }
    THEN [ success |-> FALSE,
           issues |-> { IF b.type = "undefined" THEN "budget_limit is required"
                        ELSE "budget_limit must be a number" } ]
    ELSE IF b.type = "Infinity"
    THEN [ success |-> FALSE, issues |-> { "budget_limit must be finite" } ]
    ELSE IF b.v < 0
    THEN [ success |-> FALSE,
           issues |-> { "budget_limit must be a positive number" } ]
    ELSE [ success |-> TRUE, data |-> ParsedRequest(body, b.v) ]

\* ProposalRequestSchema.safeParse(body): budget_limit is a number (NaN is
\* none), positive and finite; the other keys are optional.
ProposalRequestSchema(body) ==
    LET b == body.budget_limit IN
    IF b.type \notin { "number", "Infinity" }
    THEN [ success |-> FALSE,
           issues |-> { IF b.type = "undefined" THEN "budget_limit is required"
                        ELSE "budget_limit must be a number" } ]
    ELSE IF b.type = "Infinity"
    THEN [ success |-> FALSE, issues |-> { "budget_limit must be finite" } ]
    ELSE IF b.v <= 0
    THEN [ success |-> FALSE,
           issues |-> { "budget_limit must be a positive number" } ]
    ELSE [ success |-> TRUE, data |-> ParsedRequest(body, b.v) ]

\* res.status(status).json({ ok, data, error }), with the Retry-After header
\* when one is set (0: none); result is what generateProposal ended with.
Response(status, ok, data, error, retryAfter, result) ==
    [ kind |-> "response", status |-> status, ok |-> ok, data |-> data,
      error |-> error, retryAfter |-> retryAfter, result |-> result ]

\* Math.ceil(ms / 1000)
CeilSeconds(ms) == (ms + 999) \div 1000

InitBoundary ==
    /\ request \in Bodies
    /\ productsDb \in { {}, ProductIds }
    /\ pc = "received"
    /\ attempt = 0
    /\ allProducts = << >>
    /\ systemPrompt = NoValue
    /\ userPrompt = NoValue
    /\ currentUserPrompt = NoValue
    /\ rawContent = NoValue
    /\ model = ""
    /\ lastValidationError = NoValue
    /\ aiData = NoValue
    /\ finalAllocated = 0
    /\ remainingBudget = 0
    /\ impactAcc = NoValue
    /\ computedImpact = NoValue
    /\ aiLog = << >>
    /\ proposals = << >>
    /\ outcome = Running
    /\ aiCalls = << >>
    /\ parsed = << >>
    /\ createCalls = 0
    /\ GroqParked
    /\ requestsSent = 0

\* The first half of generate: the body is validated; a body that fails is
\* answered with 400, one that passes is handed to generateProposal.
ValidateRequest ==
    /\ pc = "received"
    /\ LET parseResult == ProposalRequestSchema(request) IN
       IF ~parseResult.success
       THEN /\ outcome' = Response(400, FALSE, NoValue, parseResult.issues,
                                   0, NoValue)
            /\ pc' = "responded"
            /\ UNCHANGED request
       ELSE /\ request' = parseResult.data
            /\ pc' = "find"
            /\ UNCHANGED outcome
    /\ UNCHANGED << productsDb, attempt, allProducts, systemPrompt,
                    userPrompt, currentUserPrompt, rawContent, model,
                    lastValidationError, aiData, finalAllocated,
                    remainingBudget, impactAcc, computedImpact, aiLog,
                    proposals, aiCalls, parsed, createCalls >>
    /\ UNCHANGED groqVars
    /\ UNCHANGED runVars

\* The second half of generate in the revision that knows
\* ProviderRateLimitError: what is sent for the result of generateProposal.
generate(result) ==
    IF result.kind = "returned"
    THEN Response(200, TRUE, result.value, NoValue, 0, result)
    ELSE LET err == result.error IN
         IF err.class = "ProviderRateLimitError"
         THEN Response(429, FALSE,
                       [ provider |-> "groq",
                         retry_after_ms |-> err.retryAfterMs ],
                       err.message,
                       IF CeilSeconds(err.retryAfterMs) > 0
                       THEN CeilSeconds(err.retryAfterMs) ELSE 0,
                       result)
         ELSE IF err.class = "ValidationError"
         THEN Response(422, FALSE, NoValue, err.message, 0, result)
         ELSE Response(500, FALSE, NoValue, err.message, 0, result)

\* The second half of generate in controllers/proposalController.js.
generateByValidationOnly(result) ==
    IF result.kind = "returned"
    THEN Response(200, TRUE, result.value, NoValue, 0, result)
    ELSE LET err == result.error IN
         IF err.class = "ValidationError"
         THEN Response(422, FALSE, NoValue, err.message, 0, result)
         ELSE Response(500, FALSE, NoValue, err.message, 0, result)

\* generateProposal has returned or thrown: the response is sent.
Sends(response) ==
    /\ pc = "done"
    /\ outcome.kind \in { "returned", "threw" }
    /\ outcome' = response
    /\ pc' = "responded"
    /\ UNCHANGED << request, productsDb, attempt, allProducts, systemPrompt,
                    userPrompt, currentUserPrompt, rawContent, model,
                    lastValidationError, aiData, finalAllocated,
                    remainingBudget, impactAcc, computedImpact, aiLog,
                    proposals, aiCalls, parsed, createCalls >>
    /\ UNCHANGED groqVars
    /\ UNCHANGED runVars

Respond == Sends(generate(outcome))

RespondByValidationOnly == Sends(generateByValidationOnly(outcome))

NextBoundary ==
    \/ ValidateRequest
    \/ FindReturns
    \/ CallAIReturns
    \/ CallAIFails
    \/ AILogCreateOk
    \/ AILogCreateFails
    \/ ComputeImpactStep
    \/ ProposalCreateOk
    \/ ProposalCreateFails
    \/ RemoveProduct
    \/ Respond
    \/ RespondByValidationOnly

SpecBoundary == InitBoundary /\ [][NextBoundary]_vars


----------------------------------------------------------------------------
\* The three verifiers of the repository, applied to one candidate response:
\* parseAndValidate (retry revision), steps 6-9 of generateProposal in
\* services/proposalService.js, and validateAIOutput of the test suite.

\* A response wrapped in a markdown code fence: ```json <doc> ```
Fenced(doc) == [ fmt |-> "fenced", doc |-> doc ]

\* jsonText: the inside of the fence when the whole response is one fence,
\* the response itself otherwise.
StripFence(raw) ==
    IF raw.fmt = "fenced" THEN [ fmt |-> "json", doc |-> raw.doc ] ELSE raw

\* Fault variant: the name of a line item is not compared with the catalog's.
ItemIdentityError_NameUnchecked(item, pm) ==
    IF item.product_id \notin pm
    THEN Reason("ProductNotFound", item.product_id, "", 0, 0, {})
    ELSE LET dbProduct == ProductDocs[item.product_id]
         IN  IF item.unit_price # dbProduct.unit_price
             THEN Reason("PriceMismatch", item.product_id, item.name,
                         item.unit_price, dbProduct.unit_price, {})
             ELSE NoValue

\* Steps 8a-8c for one line item: the reason it is refused for, or NoValue.
ItemIdentityError(item, pm) ==
    IF item.product_id \notin pm
    THEN Reason("ProductNotFound", item.product_id, "", 0, 0, {})
    ELSE LET dbProduct == ProductDocs[item.product_id]
         IN  IF item.name # dbProduct.name
             THEN Reason("NameMismatch", item.product_id, item.name, 0, 0, {})
             ELSE IF item.unit_price # dbProduct.unit_price
             THEN Reason("PriceMismatch", item.product_id, item.name,
                         item.unit_price, dbProduct.unit_price, {})
             ELSE NoValue

\* Fault variant: the claimed line totals are kept.
RecomputeTotals_Kept(items) == items

\* item.total_cost = Math.round(item.quantity * item.unit_price * 100) / 100
\* for every line item (the price is the catalog's once 8c has passed).
RecomputeTotals(items) ==
    [ i \in 1..Len(items) |->
        [ items[i] EXCEPT !.total_cost = Round2(items[i].quantity
                                                 * items[i].unit_price) ] ]

\* Steps 8-9 as services/proposalService.js and validateAIOutput share them;
\* checkLimit tells whether total_budget_limit is compared with the request
\* (validateAIOutput does, the service does not).
BusinessValidation(doc, pm, budget_limit, checkLimit) ==
    LET n   == Len(doc.products)
        bad == { i \in 1..n : ItemIdentityError(doc.products[i], pm) # NoValue }
        items == RecomputeTotals(doc.products)
        computedAllocated == Round2(SumTotalCost(items))
    IN  IF bad # {}
        THEN [ok |-> FALSE,
              error |-> ItemIdentityError(doc.products[MinOf(bad)], pm)]
        ELSE IF checkLimit /\ doc.total_budget_limit # budget_limit
        THEN [ok |-> FALSE,
              error |-> Reason("BudgetLimitMismatch", "", "",
                               doc.total_budget_limit, budget_limit, {})]
        ELSE IF computedAllocated > budget_limit
        THEN [ok |-> FALSE,
              error |-> Reason("BudgetExceeded", "", "",
                               computedAllocated, budget_limit, {})]
        ELSE [ok |-> TRUE,
              data |-> [doc EXCEPT !.products = items],
              finalAllocated |-> computedAllocated]

\* validateAIOutput(aiData, productMap, budgetLimit) of the test suite; it
\* also stores the computed sum in aiData.allocated_budget.
validateAIOutput(aiDoc, pm, budgetLimit) ==
    LET res == BusinessValidation(aiDoc, pm, budgetLimit, TRUE)
    IN  IF res.ok
        THEN [res EXCEPT !.data.allocated_budget = res.finalAllocated]
        ELSE res

\* Steps 6-9 of generateProposal in services/proposalService.js.
ProposalServiceVerify(raw, pm, budget_limit) ==
    LET p == JsonParse(StripFence(raw)) IN
    IF ~p.ok
    THEN [ok |-> FALSE, error |-> Reason("NotJSON", "", "", 0, 0, {})]
    ELSE IF SchemaIssues(p.value) # {}
    THEN [ok |-> FALSE,
          error |-> Reason("SchemaViolation", "", "", 0, 0, SchemaIssues(p.value))]
    ELSE BusinessValidation(SchemaData(p.value), pm, budget_limit, FALSE)

\* The verdict of a verifier, as kept in outcome.
VerdictBy(verifier, res) == [ kind |-> "verdict", by |-> verifier, res |-> res ]

\* Candidate line items: every combination of an identifier (Z is in no
\* catalog), a name (right, of another product, or differing in case only),
\* a quantity, a unit price (2001 is a tenth of a cent above the Tote's) and
\* a claimed total that is exact, off within the tolerance, off beyond it,
\* or zero.
CandidateQuantities == { 1, 3 }

\* What a claimed line total differs by from quantity x claimed price.
CandidateOffsets == { 0, 6, 20 }

CandidateItems ==
    { Item(id, name, q, price, q * price + d) :
        id \in { "A", "B", "Z" }, name \in { "Tote", "Bottle", "tote" },
        q \in CandidateQuantities, price \in { 2000, 3000, 2001 },
        d \in CandidateOffsets }
    \cup
    { Item(id, name, q, price, 0) :
        id \in { "A", "B", "Z" }, name \in { "Tote", "Bottle", "tote" },
        q \in CandidateQuantities, price \in { 2000, 3000, 2001 } }

\* The canonical line: one Tote.
OneTote == Item("A", "Tote", 1, 2000, 2000)

\* One Tote with a line total off by 0.02.
WrongTotalTote == Item("A", "Tote", 1, 2000, 2020)

\* Lines whose identifier, name or unit price is not the catalog's.
IdentityOffItems ==
    { Item("Z", "Tote", 1, 2000, 2000), Item("A", "tote", 1, 2000, 2000),
      Item("A", "Tote", 1, 2001, 2001) }

CandidateLines ==
    { << it >> : it \in CandidateItems }
    \cup { << OneTote, it >> : it \in CandidateItems }
    \cup { << it, OneTote >> : it \in CandidateItems }
    \cup { << WrongTotalTote, it >> : it \in IdentityOffItems }
    \cup { << it, WrongTotalTote >> : it \in IdentityOffItems }

\* What a claimed allocation differs by from the sum of the claimed totals,
\* around the tolerance of one and of two line items.
AllocationOffsets == { -2010, -2000, -1010, -1000, 1000, 1010, 2010 }

\* Candidate documents for a request of budget b: the claimed allocation is
\* the sum of the claimed totals, that sum plus two units, or zero; the
\* claimed limit is the request's or another one.
CandidateDocs(b) ==
    UNION { { Doc(limit, alloc, lines) :
                limit \in { b, b + 1000 },
                alloc \in { 0, SumTotalCost(lines),
                            SumTotalCost(lines) + 2000 } } :
            lines \in CandidateLines }
    \cup { Doc(b, SumTotalCost(lines) + d, lines) :
                lines \in { << OneTote >>, << OneTote, OneTote >> },
                d \in AllocationOffsets }

\* The Tote line with a key AIProductSchema does not declare.
ToteWithSku ==
    [ k \in ItemKeys \cup { "sku" } |->
        IF k = "sku" THEN "T-1" ELSE OneTote[k] ]

\* Documents that differ from a well-formed one in shape only: a line item
\* with an undeclared key, a document without its impact summary, no line
\* items, a quantity of zero, a negative unit price or
\* total, a confidence score below 0 or above 1.
ShapeProbes(b) ==
    LET good == Doc(b, 2000, << OneTote >>) IN
    { [ good EXCEPT !.products = << ToteWithSku >> ],
      [ k \in TopKeys \ { "impact_summary" } |-> good[k] ],
      Doc(b, 0, << >>),
      Doc(b, 0, << Item("A", "Tote", 0, 2000, 0) >>),
      Doc(b, 2000, << Item("A", "Tote", 1, -2000, 2000) >>),
      Doc(b, 2000, << Item("A", "Tote", 1, 2000, -2000) >>),
      [ good EXCEPT !.confidence_score = -1 ],
      [ good EXCEPT !.confidence_score = 101 ],
      [ good EXCEPT !.confidence_score = 0 ],
      [ good EXCEPT !.confidence_score = 100 ] }

\* Candidate responses: the documents bare or fenced, a plain text, and a
\* document with a key the schema does not know.
Candidates(b) ==
    { Json(d) : d \in CandidateDocs(b) }
    \cup { Json(d) : d \in ShapeProbes(b) }
    \cup { Fenced(d) : d \in CandidateDocs(b) }
    \cup { PlainText,
            Json([ k \in TopKeys \cup { "notes" } |->
                     IF k = "notes" THEN "x"
                     ELSE Doc(b, 2000, << OneTote >>)[k] ]) }

InitVerify ==
    /\ request \in Requests
    /\ productsDb \in { ProductIds, { "A" } }
    /\ allProducts = FindAll(productsDb)
    /\ rawContent \in Candidates(request.budget_limit)
    /\ pc = "candidate"
    /\ attempt = 0
    /\ systemPrompt = NoValue
    /\ userPrompt = NoValue
    /\ currentUserPrompt = NoValue
    /\ model = ""
    /\ lastValidationError = NoValue
    /\ aiData = NoValue
    /\ finalAllocated = 0
    /\ remainingBudget = 0
    /\ impactAcc = NoValue
    /\ computedImpact = NoValue
    /\ aiLog = << >>
    /\ proposals = << >>
    /\ outcome = Running
    /\ aiCalls = << >>
    /\ parsed = << >>
    /\ createCalls = 0
    /\ GroqParked
    /\ requestsSent = 0

\* A verifier hands down its verdict on the candidate.
HandsDown(verifier, res) ==
    /\ pc = "candidate"
    /\ pc' = "verified"
    /\ outcome' = VerdictBy(verifier, res)
    /\ UNCHANGED << request, productsDb, attempt, allProducts, systemPrompt,
                    userPrompt, currentUserPrompt, rawContent, model,
                    lastValidationError, aiData, impactAcc, computedImpact,
                    aiLog, proposals, aiCalls, parsed, createCalls >>
    /\ UNCHANGED groqVars
    /\ UNCHANGED runVars

Verified(verifier, res) ==
    /\ HandsDown(verifier, res)
    /\ UNCHANGED << finalAllocated, remainingBudget >>

\* parseAndValidate and, when it returns, the two figures generateProposal
\* derives from the accepted line items for Proposal.create.
RunParseAndValidate ==
    LET res == parseAndValidate(rawContent, productMap, request.budget_limit)
    IN  /\ HandsDown("parseAndValidate", res)
        /\ IF res.ok
           THEN LET alloc == Round2(SumTotalCost(res.data.products)) IN
                /\ finalAllocated' = alloc
                /\ remainingBudget' = Round2(request.budget_limit - alloc)
           ELSE UNCHANGED << finalAllocated, remainingBudget >>

RunProposalService ==
    Verified("proposalService",
             ProposalServiceVerify(rawContent, productMap, request.budget_limit))

\* The test hands validateAIOutput an object: a candidate that is a document.
RunValidateAIOutput ==
    /\ rawContent.fmt = "json"
    /\ DOMAIN rawContent.doc = TopKeys
    /\ Verified("validateAIOutput",
                validateAIOutput(rawContent.doc, productMap,
                                 request.budget_limit))

\* Fault variant: the totals are those of the last line item alone.
computeImpact_LastOnly(proposalProducts, db) ==
    IF \E i \in 1..Len(proposalProducts) :
           proposalProducts[i].product_id \notin db
    THEN [ok |-> FALSE,
          error |-> Reason("ImpactProductNotFound", "", "", 0, 0, {})]
    ELSE IF proposalProducts = << >>
    THEN [ok |-> TRUE,
          value |-> [ total_plastic_saved |-> 0, total_carbon_avoided |-> 0 ]]
    ELSE LET item == proposalProducts[Len(proposalProducts)]
             dbProduct == ProductDocs[item.product_id]
         IN  [ok |-> TRUE,
              value |-> [ total_plastic_saved |->
                            Round2(dbProduct.plastic_saved_per_unit
                                      * item.quantity),
                          total_carbon_avoided |->
                            Round2(dbProduct.carbon_avoided_per_unit
                                      * item.quantity) ]]

\* The loop of computeImpact over the line items from the i-th on, with the
\* totals so far; db is the Product collection findById reads.
RECURSIVE ImpactLoop(_, _, _, _, _)
ImpactLoop(proposalProducts, i, totalPlasticSaved, totalCarbonAvoided, db) ==
    IF i > Len(proposalProducts)
    THEN [ok |-> TRUE,
          value |-> [ total_plastic_saved |-> Round2(totalPlasticSaved),
                      total_carbon_avoided |-> Round2(totalCarbonAvoided) ]]
    ELSE LET item == proposalProducts[i] IN
         IF item.product_id \notin db
         THEN [ok |-> FALSE,
               error |-> Reason("ImpactProductNotFound", item.product_id,
                                "", 0, 0, {})]
         ELSE LET dbProduct == ProductDocs[item.product_id]
              IN  ImpactLoop(proposalProducts, i + 1,
                             totalPlasticSaved
                               + dbProduct.plastic_saved_per_unit * item.quantity,
                             totalCarbonAvoided
                               + dbProduct.carbon_avoided_per_unit * item.quantity,
                             db)

\* computeImpact(proposalProducts), as a function of its argument and of the
\* collection when the collection does not change while it runs.
computeImpact(proposalProducts, db) ==
    ImpactLoop(proposalProducts, 1, 0, 0, db)

\* computeImpact is handed the line items of a candidate document.
RunComputeImpact ==
    /\ rawContent.fmt = "json"
    /\ DOMAIN rawContent.doc = TopKeys
    /\ Verified("computeImpact",
                computeImpact(rawContent.doc.products, productsDb))

NextVerify ==
    \/ RunParseAndValidate
    \/ RunProposalService
    \/ RunValidateAIOutput
    \/ RunComputeImpact

SpecVerify == InitVerify /\ [][NextVerify]_vars

----------------------------------------------------------------------------
\* generateProposal over callGroq: callAI of each round is one invocation of
\* callGroq, with its attempts, sleeps and the shared watermark.

\* The invocation of callGroq made by the round in progress.
RunCall == "c1"

\* What the model answers in a run: a proposal that passes, or plain text.
RunResponses(b) ==
    { Json(Doc(b, 4000, << Item("A", "Tote", 2, 2000, 4000) >>)), PlainText }

\* What a physical request of a run can fail with; an empty completion is
\* thrown inside the same try block.
RunFailures ==
    { AxiosError(429, -1, -1, "", TRUE),
      AxiosError(500, -1, -1, "", TRUE),
      AxiosError(400, -1, -1, "", TRUE),
      EmptyContentError }

\* The error callGroq throws when it gives up: ProviderRateLimitError with
\* the delay computed last (ticks of 500 ms), or the generic Error.
GroqThrown(call) ==
    IF call.error = "ProviderRateLimitError"
    THEN [ class |-> "ProviderRateLimitError",
           message |-> Reason("GroqRateLimit", "", "", 0, 0, {}),
           retryAfterMs |-> call.delayMs * 500 ]
    ELSE [ class |-> "Error",
           message |-> Reason("GroqApiError", "", "", 0, 0, {}) ]

\* One more physical request when the step put one in flight.
CountsRequest ==
    requestsSent' = requestsSent
                      + (IF calls'[RunCall].pc = "inflight" THEN 1 ELSE 0)

\* The watermark is shared by all requests of the process: the run may start
\* while the cooldown of an earlier request's 429 is still in force.
InitRun ==
    /\ InitPipeline
    /\ now = 0
    /\ groqRateLimitedUntil \in { 0, rateLimitMinDelayMs + RateLimitPad }
    /\ calls = [ c \in Calls |-> IdleCall ]
    /\ requestsSent = 0

\* callAI of the round calls callGroq: the loop starts with attempt 1.
GroqInvoked ==
    /\ pc = "callAI"
    /\ calls[RunCall].pc = "idle"
    /\ waitForGroqCooldown(RunCall, 1)
    /\ CountsRequest
    /\ UNCHANGED << now, groqRateLimitedUntil >>
    /\ UNCHANGED pipeVars

\* The sleep of waitForGroqCooldown is over: the request is issued.
GroqCooldownElapsed ==
    /\ pc = "callAI"
    /\ calls[RunCall].pc = "cooling"
    /\ now >= calls[RunCall].wakeAt
    /\ IssueRequest(RunCall, calls[RunCall].attempt)
    /\ CountsRequest
    /\ UNCHANGED << now, groqRateLimitedUntil >>
    /\ UNCHANGED pipeVars

\* The response carries content: callGroq and callAI return it, and step 5
\* starts.
GroqReturns ==
    /\ pc = "callAI"
    /\ calls[RunCall].pc = "inflight"
    /\ \E raw \in RunResponses(request.budget_limit), m \in ModelIds :
          /\ rawContent' = raw
          /\ model' = m
    /\ pc' = "log"
    /\ calls' = [ calls EXCEPT ![RunCall] = IdleCall ]
    /\ UNCHANGED << request, productsDb, attempt, allProducts, systemPrompt,
                    userPrompt, currentUserPrompt, lastValidationError, aiData,
                    finalAllocated, remainingBudget, impactAcc, computedImpact,
                    aiLog, proposals, outcome, aiCalls, parsed, createCalls >>
    /\ UNCHANGED << now, groqRateLimitedUntil, requestsSent >>

\* Fault variant: when callGroq gives up, its promise is never settled and
\* the round keeps waiting for it.
GroqFails_NeverSettles ==
    /\ pc = "callAI"
    /\ calls[RunCall].pc = "inflight"
    /\ \E err \in RunFailures : CatchGroqError(RunCall, err)
    /\ UNCHANGED << pc, outcome >>
    /\ UNCHANGED << request, productsDb, attempt, allProducts, systemPrompt,
                    userPrompt, currentUserPrompt, rawContent, model,
                    lastValidationError, aiData, finalAllocated,
                    remainingBudget, impactAcc, computedImpact, aiLog,
                    proposals, aiCalls, parsed, createCalls >>
    /\ UNCHANGED << now, requestsSent >>

\* The request failed or came back empty: the catch block sleeps for a
\* retry, or throws, and what it throws leaves generateProposal as it is.
GroqFails ==
    /\ pc = "callAI"
    /\ calls[RunCall].pc = "inflight"
    /\ \E err \in RunFailures : CatchGroqError(RunCall, err)
    /\ IF calls'[RunCall].pc = "failed"
       THEN Throw(GroqThrown(calls'[RunCall]))
       ELSE UNCHANGED << pc, outcome >>
    /\ UNCHANGED << request, productsDb, attempt, allProducts, systemPrompt,
                    userPrompt, currentUserPrompt, rawContent, model,
                    lastValidationError, aiData, finalAllocated,
                    remainingBudget, impactAcc, computedImpact, aiLog,
                    proposals, aiCalls, parsed, createCalls >>
    /\ UNCHANGED << now, requestsSent >>

\* The sleep before a retry is over: the loop goes to its next attempt.
GroqBackoffElapsed ==
    /\ pc = "callAI"
    /\ calls[RunCall].pc = "backoff"
    /\ now >= calls[RunCall].wakeAt
    /\ waitForGroqCooldown(RunCall, calls[RunCall].attempt + 1)
    /\ CountsRequest
    /\ UNCHANGED << now, groqRateLimitedUntil >>
    /\ UNCHANGED pipeVars

\* Time passes while the call sleeps.
TimePasses ==
    /\ calls[RunCall].pc \in { "cooling", "backoff" }
    /\ calls[RunCall].wakeAt > now
    /\ now' = now + 1
    /\ UNCHANGED << groqRateLimitedUntil, calls, requestsSent >>
    /\ UNCHANGED pipeVars

NextRun ==
    \/ FindReturns
    \/ GroqInvoked
    \/ GroqCooldownElapsed
    \/ GroqReturns
    \/ GroqFails
    \/ GroqBackoffElapsed
    \/ TimePasses
    \/ AILogCreateOk
    \/ AILogCreateFails
    \/ ComputeImpactStep
    \/ ProposalCreateOk
    \/ ProposalCreateFails
    \/ RemoveProduct

SpecRun == InitRun /\ [][NextRun]_vars

\* Every provider request is answered, every storage operation returns and
\* every timer fires: a step that can be taken is taken.
SpecRunFair == SpecRun /\ WF_vars(NextRun)

----------------------------------------------------------------------------
\* From the request body to the first prompts: the controller validates the
\* body and hands parseResult.data to generateProposal, which renders the
\* prompts of the first round. generateProposal exists in two revisions
\* (app.js and services/proposalService.js).

\* An object with the keys of keys, valued as in full.
Pick(full, keys) == [ k \in keys |-> full[k] ]

PreferencesValues ==
    { [ category_focus |-> c, sustainability_priority |-> s ] :
        c \in { << >>, << "Bags" >>, << "Bags", "Bottles" >> },
        s \in { "", "plastic" } }

\* Request bodies with any of the optional keys left out, and bodies that
\* carry category_focus and sustainability_priority beside budget_limit
\* rather than under preferences.
RequestBodies ==
    LET full(c, b, p) ==
            [ client_name |-> c, budget_limit |-> b, preferences |-> p,
              category_focus |-> p.category_focus,
              sustainability_priority |-> p.sustainability_priority ]
        keySets ==
            { { "budget_limit" } \cup ks :
                ks \in SUBSET { "client_name", "preferences" } }
            \cup { { "budget_limit", "client_name", "category_focus",
                     "sustainability_priority" } }
    IN  { Pick([ full(c, b, p) EXCEPT
                    !.preferences = Pick(p, pk) ], ks) :
            c \in { "", "Acme" },
            b \in { Num(10000), Num(5000), Num(0) },
            p \in PreferencesValues,
            pk \in { { "category_focus", "sustainability_priority" },
                     { "category_focus" }, { "sustainability_priority" } },
            ks \in keySets }

\* A parameter destructured from the object handed to the function:
\* undefined when the object has no such key. buildUserPrompt treats
\* undefined as it treats the empty value (both are falsy), so the empty
\* value stands for it.
Destructured(obj, key, empty) ==
    IF key \in DOMAIN obj THEN obj[key] ELSE empty

\* buildSystemPrompt(allProducts) of services/proposalService.js: the whole
\* catalog, the budget parameter left undefined.
buildSystemPrompt_NoBudget(products) ==
    [ budget |-> "undefined",
      catalogLines |->
        [k \in 1..Len(products) |->
            [ id |-> products[k],
              name |-> ProductDocs[products[k]].name,
              category |-> ProductDocs[products[k]].category,
              unit_price |-> ProductDocs[products[k]].unit_price,
              maxQty |-> "NaN" ]] ]

\* Steps 1-4 of generateProposal in services/proposalService.js, which takes
\* category_focus and sustainability_priority from the top of the object
\* it is handed.
ServiceFindReturns ==
    /\ pc = "find"
    /\ LET found == FindAll(productsDb) IN
       /\ allProducts' = found
       /\ IF Len(found) = 0
          THEN /\ Throw(SystemError("NoProducts", ""))
               /\ UNCHANGED << systemPrompt, userPrompt, currentUserPrompt,
                               attempt, aiCalls >>
          ELSE LET sys == buildSystemPrompt_NoBudget(found)
                   usr == buildUserPrompt(
                              request.budget_limit,
                              Destructured(request, "category_focus", << >>),
                              Destructured(request,
                                           "sustainability_priority", ""),
                              request.client_name)
               IN  /\ systemPrompt' = sys
                   /\ userPrompt' = usr
                   /\ currentUserPrompt' = usr
                   /\ attempt' = 1
                   /\ InvokeCallAI(sys, usr)
                   /\ pc' = "callAIService"
                   /\ UNCHANGED outcome
    /\ UNCHANGED << request, productsDb, rawContent, model, lastValidationError,
                    aiData, finalAllocated, remainingBudget, impactAcc,
                    computedImpact, aiLog, proposals, parsed, createCalls >>
    /\ UNCHANGED groqVars
    /\ UNCHANGED runVars

InitRequest ==
    /\ request \in RequestBodies
    /\ productsDb \in { {}, ProductIds }
    /\ pc = "received"
    /\ attempt = 0
    /\ allProducts = << >>
    /\ systemPrompt = NoValue
    /\ userPrompt = NoValue
    /\ currentUserPrompt = NoValue
    /\ rawContent = NoValue
    /\ model = ""
    /\ lastValidationError = NoValue
    /\ aiData = NoValue
    /\ finalAllocated = 0
    /\ remainingBudget = 0
    /\ impactAcc = NoValue
    /\ computedImpact = NoValue
    /\ aiLog = << >>
    /\ proposals = << >>
    /\ outcome = Running
    /\ aiCalls = << >>
    /\ parsed = << >>
    /\ createCalls = 0
    /\ GroqParked
    /\ requestsSent = 0

NextRequest ==
    \/ ValidateRequest
    \/ FindReturns
    \/ ServiceFindReturns

SpecRequest == InitRequest /\ [][NextRequest]_vars


----------------------------------------------------------------------------
\* Properties of generateProposal (checked under Spec)

\* The verdict of the verifier on the k-th response handed to it.
Verdict(k) == parseAndValidate(parsed[k], productMap, request.budget_limit)

RECURSIVE CanonicalCost(_)
CanonicalCost(items) ==
    IF items = << >> THEN 0
    ELSE items[1].quantity * ProductDocs[items[1].product_id].unit_price
            + CanonicalCost(Tail(items))

\* C1: a run that returns successfully returns and persists an
\* allocated_budget equal to the sum over the accepted line items of
\* quantity x catalog unit price, and at most the request's budget_limit.
C1_AllocatedIsCanonicalSum ==
    outcome.kind = "returned" =>
        /\ outcome.value.allocated_budget
              = CanonicalCost(outcome.value.products)
        /\ proposals[Len(proposals)].allocated_budget
              = CanonicalCost(proposals[Len(proposals)].products)
        /\ outcome.value.allocated_budget <= request.budget_limit

\* C2: one run calls callAI at most MAX_VALIDATION_RETRIES times, and the
\* round whose response passed parseAndValidate is the last one that called it.
C2_BoundedCallsStopAtAcceptance ==
    /\ Len(aiCalls) <= MAX_VALIDATION_RETRIES
    /\ \A k \in 1..Len(parsed) :
          Verdict(k).ok => (k = Len(parsed) /\ Len(aiCalls) = k)

C2_Witness ==
    /\ outcome.kind = "returned"
    /\ Len(aiCalls) = MAX_VALIDATION_RETRIES
    /\ Verdict(Len(parsed)).ok

\* C3: when round k < MAX_VALIDATION_RETRIES is rejected with reason r_k, the
\* user prompt sent in round k+1 carries r_k and the budget reminder; a run
\* that returns, returns the data of its last (accepted) round.
C3_FeedbackInNextPrompt ==
    /\ \A k \in 1..Len(parsed) :
          (k < MAX_VALIDATION_RETRIES /\ ~Verdict(k).ok) =>
              /\ Len(aiCalls) >= k + 1
              /\ \E i \in 1..Len(aiCalls[k + 1].user_prompt.feedback) :
                    LET f == aiCalls[k + 1].user_prompt.feedback[i] IN
                    /\ f.error = Verdict(k).error
                    /\ f.budget_reminder = request.budget_limit
    /\ outcome.kind = "returned" =>
          /\ Verdict(Len(parsed)).ok
          /\ outcome.value.products = Verdict(Len(parsed)).data.products

C3_Witness ==
    /\ outcome.kind = "returned"
    /\ Len(parsed) = 3
    /\ ~Verdict(1).ok /\ ~Verdict(2).ok /\ Verdict(3).ok
    /\ Verdict(1).error # Verdict(2).error
    /\ aiCalls[2].user_prompt.feedback[1].error = Verdict(1).error
    /\ aiCalls[3].user_prompt.feedback[1].error = Verdict(2).error

\* C4: when every round up to the maximum is rejected, the run throws a
\* ValidationError carrying the reason of the final round, and nothing is
\* persisted.
C4_ExhaustedThrowsLastReason ==
    ( /\ pc = "done"
      /\ Len(parsed) = MAX_VALIDATION_RETRIES
      /\ ~Verdict(MAX_VALIDATION_RETRIES).ok ) =>
        /\ outcome = Threw(ValidationError(Verdict(MAX_VALIDATION_RETRIES).error))
        /\ proposals = << >>
        /\ createCalls = 0

C4_Witness ==
    /\ pc = "done"
    /\ Len(parsed) = MAX_VALIDATION_RETRIES
    /\ \A k \in 1..MAX_VALIDATION_RETRIES : ~Verdict(k).ok
    /\ Verdict(MAX_VALIDATION_RETRIES).error
          # Verdict(MAX_VALIDATION_RETRIES - 1).error
    /\ outcome.kind = "threw"

\* C5: every response handed to the verifier has, at that time, its own log
\* entry: same prompts as were sent in its round, same raw text.
C5_LoggedBeforeParsed ==
    /\ Len(parsed) <= Len(aiLog)
    /\ \A k \in 1..Len(parsed) :
          /\ aiLog[k].raw_response = parsed[k]
          /\ aiLog[k].system_prompt = aiCalls[k].system_prompt
          /\ aiLog[k].user_prompt = aiCalls[k].user_prompt

C5_Witness ==
    /\ Len(parsed) >= 2
    /\ parsed[1] # parsed[2]
    /\ aiLog[2].user_prompt # aiLog[1].user_prompt

\* C6: a step in which the awaited log write ends without a log entry ends the
\* run with a system error: the response is not parsed, no provider call
\* follows, nothing is persisted and the loop's rejection record is untouched.
C6_LogFailureIsFatal ==
    [][ (pc = "log" /\ aiLog' = aiLog) =>
            /\ pc' = "done"
            /\ outcome'.kind = "threw"
            /\ outcome'.error.class = "Error"
            /\ parsed' = parsed
            /\ aiCalls' = aiCalls
            /\ proposals' = proposals /\ proposals = << >>
            /\ createCalls' = 0
            /\ lastValidationError' = lastValidationError
            /\ attempt' = attempt ]_pipeVars

C6_Witness ==
    /\ outcome.kind = "threw"
    /\ outcome.error.message.kind = "LoggingFailure"
    /\ Len(aiLog) >= 1
    /\ Len(aiCalls) = Len(aiLog) + 1

\* C7: a step in which the awaited callAI ends without a response ends the
\* run with the provider's error, which is no ValidationError; no further
\* round is started.
C7_ProviderFailureIsFatal ==
    [][ (pc = "callAI" /\ pc' # "log") =>
            /\ pc' = "done"
            /\ outcome'.kind = "threw"
            /\ outcome'.error \in ProviderErrors
            /\ outcome'.error.class # "ValidationError"
            /\ aiCalls' = aiCalls
            /\ aiLog' = aiLog
            /\ proposals' = proposals ]_pipeVars

C7_Witness ==
    /\ outcome.kind = "threw"
    /\ outcome.error.class = "ProviderRateLimitError"
    /\ Len(aiCalls) >= 2

\* C8: Proposal.create is called once in a run that returns, never in a run
\* that fails by a precondition fault, a provider failure, a logging failure,
\* verification exhaustion or an impact failure, and never for a rejected
\* candidate.
FailsBeforePersistence ==
    /\ outcome.kind = "threw"
    /\ \/ outcome.error.class \in { "ValidationError", "ProviderRateLimitError" }
       \/ outcome.error.message.kind \in
             { "NoProducts", "GroqApiError", "LoggingFailure",
               "ImpactProductNotFound" }

C8_CreateOncePerSuccess ==
    /\ outcome.kind = "returned" => (createCalls = 1 /\ Len(proposals) = 1)
    /\ FailsBeforePersistence => (createCalls = 0 /\ proposals = << >>)
    /\ createCalls >= 1 =>
          /\ createCalls = 1
          /\ Verdict(Len(parsed)).ok
          /\ \A i \in 1..Len(proposals) :
                proposals[i].products = Verdict(Len(parsed)).data.products

C8_Witness ==
    /\ outcome.kind = "returned"
    /\ createCalls = 1
    /\ Len(parsed) >= 2
    /\ ~Verdict(1).ok


----------------------------------------------------------------------------
\* Properties of callGroq (checked under SpecGroq)

\* A step in which call c receives an HTTP 429.
Receives429(c) ==
    /\ calls[c].pc = "inflight"
    /\ calls'[c].pc # "inflight"
    /\ calls'[c].lastStatus = 429

\* A step in which call c issues a physical request.
Issues(c) ==
    /\ calls[c].pc # "inflight"
    /\ calls'[c].pc = "inflight"

\* C9: the shared watermark never decreases; every 429 sets it to the maximum
\* of its current value and (now + the delay computed for that 429).
C9_WatermarkNeverDecreases ==
    [][ /\ groqRateLimitedUntil' >= groqRateLimitedUntil
        /\ \A c \in Calls :
              Receives429(c) =>
                  groqRateLimitedUntil'
                      = Max(groqRateLimitedUntil, now + calls'[c].delayMs)
      ]_groqVars

\* A call has received a 429 whose own bound (now + delay, kept in wakeAt)
\* lies below the watermark that was already in force.
C9_Witness ==
    \E c \in Calls :
        /\ calls[c].pc = "backoff"
        /\ calls[c].lastStatus = 429
        /\ calls[c].wakeAt < groqRateLimitedUntil

\* C10: no physical request is issued at a time earlier than the value the
\* shared watermark has at that moment.
C10_NoRequestBeforeWatermark ==
    [][ \A c \in Calls : Issues(c) => now >= groqRateLimitedUntil ]_groqVars

\* C11: after a 429 with a retry hint of h received at time t, the next
\* physical request of the same invocation is issued at t + h or later, and
\* so is the first physical request of every invocation made after that 429.
\* (A hinted 429 that a call no longer holds was followed by a request of
\* that call, which the first conjunct places at or after its t + h.)
C11_HintIsWaitedOut ==
    [][ \A c \in Calls :
            Issues(c) =>
                /\ now >= calls[c].hintUntil
                /\ calls[c].pc = "idle" => now >= HintFloor
                /\ calls[c].pc = "cooling" => now >= calls[c].startFloor
      ]_groqVars

\* A call invoked after another call received a hinted 429 is waiting for
\* the hinted time, and so is the call that received it.
C11_Witness ==
    \E c, d \in Calls :
        /\ c # d
        /\ calls[d].pc = "backoff"
        /\ calls[d].err.status = 429
        /\ calls[d].hintUntil > now
        /\ calls[d].wakeAt >= calls[d].hintUntil
        /\ calls[c].pc = "cooling"
        /\ calls[c].attempt = 1
        /\ calls[c].startFloor = calls[d].hintUntil
        /\ calls[c].wakeAt >= calls[c].startFloor

\* A step in which the request of call c fails.
Fails(c) ==
    /\ calls[c].pc = "inflight"
    /\ calls'[c].pc \in { "backoff", "failed" }

\* The failures after which another request may follow: a network-level
\* error (no response received), an HTTP 5xx or an HTTP 429.
RetryableFailure(e) ==
    \/ e.status = 429
    \/ e.status >= 500
    \/ e.status = 0 /\ (e.code \in NETWORK_ERROR_CODES \/ e.request)

WaitFor429(e, k) ==
    Max(IF RetryHint(e) > 0 THEN RetryHint(e) ELSE retryDelayMs * k,
        rateLimitMinDelayMs) + RateLimitPad

\* C13: a call whose last allowed attempt fails throws a
\* ProviderRateLimitError, carrying the wait computed for that 429, exactly
\* when that attempt failed with HTTP 429; otherwise it throws the generic
\* provider error.  No call throws a ProviderRateLimitError earlier.
C13_RateLimitErrorIffLast429 ==
    \A c \in Calls :
        calls[c].pc = "failed" =>
            /\ calls[c].error \in { "ProviderRateLimitError", "Error" }
            /\ calls[c].error = "ProviderRateLimitError" <=>
                  (calls[c].attempt = maxRetries /\ calls[c].err.status = 429)
            /\ calls[c].error = "ProviderRateLimitError" =>
                  calls[c].delayMs = WaitFor429(calls[c].err, calls[c].attempt)

\* One call ran out of attempts on a hinted 429 and carries the hinted wait;
\* another ran out on an HTTP 500 and threw the generic error.
C13_Witness ==
    \E c, d \in Calls :
        /\ calls[c].pc = "failed"
        /\ calls[c].attempt = maxRetries
        /\ calls[c].error = "ProviderRateLimitError"
        /\ RetryHint(calls[c].err) > rateLimitMinDelayMs
        /\ calls[c].delayMs = RetryHint(calls[c].err) + RateLimitPad
        /\ calls[d].pc = "failed"
        /\ calls[d].attempt = maxRetries
        /\ calls[d].err.status = 500
        /\ calls[d].error = "Error"

----------------------------------------------------------------------------
\* Properties of the verifiers (checked under SpecVerify)

\* The candidate carries a document (bare or fenced) that fits the schema.
CandidateIsDocument ==
    /\ rawContent.fmt \in { "json", "fenced" }
    /\ SchemaIssues(rawContent.doc) = {}

\* The line items the candidate claims.
Claimed == rawContent.doc.products

\* A verifier has handed down its verdict on a candidate document.
VerdictOn(verifier) ==
    /\ pc = "verified"
    /\ outcome.by = verifier
    /\ CandidateIsDocument

\* The three verifiers.
Verifiers == { "parseAndValidate", "proposalService", "validateAIOutput" }

VerdictOnAny ==
    /\ pc = "verified"
    /\ outcome.by \in Verifiers
    /\ CandidateIsDocument

\* quantity x canonical unit price of a line whose product is in the catalog.
CanonicalLineCost(item) ==
    Round2(item.quantity * ProductDocs[item.product_id].unit_price)

\* Every line names a catalog product by its canonical name and unit price.
IdentityOk ==
    \A i \in 1..Len(Claimed) :
        /\ Claimed[i].product_id \in productMap
        /\ Claimed[i].name = ProductDocs[Claimed[i].product_id].name
        /\ Claimed[i].unit_price = ProductDocs[Claimed[i].product_id].unit_price

\* Some line of a catalog product claims a total more than 0.01 away from
\* quantity x canonical unit price.
WrongLineTotal ==
    \E i \in 1..Len(Claimed) :
        /\ Claimed[i].product_id \in productMap
        /\ Abs(Claimed[i].total_cost - CanonicalLineCost(Claimed[i])) > 10

RECURSIVE SumCanonical(_)
SumCanonical(items) ==
    IF items = << >> THEN 0
    ELSE CanonicalLineCost(items[1]) + SumCanonical(Tail(items))

\* C14: a candidate with a line total more than 0.01 away from quantity x
\* canonical unit price is never accepted (and no line total is replaced by
\* the recomputed one); when the line totals are its only flaw, the reason
\* is the cost mismatch.
C14_WrongLineTotalRejected ==
    (VerdictOnAny /\ rawContent.fmt = "json" /\ WrongLineTotal) =>
        /\ ~outcome.res.ok
        /\ IdentityOk => outcome.res.error.kind = "CostMismatch"

\* The business validation of services/proposalService.js or its mirror in
\* the test suite has handed down its verdict on a candidate document.
VerdictOnRecomputing ==
    \/ VerdictOn("proposalService")
    \/ VerdictOn("validateAIOutput")

\* C15: in the business validation of services/proposalService.js (and of
\* validateAIOutput), a candidate whose ids, names and unit prices match the
\* catalog is accepted or refused whatever line totals and allocation it
\* claims: it is accepted exactly when the recomputed sum is within the
\* budget (and, in validateAIOutput, the claimed limit is the request's);
\* every line total is then quantity x unit price and the allocation is the
\* sum of the recomputed totals.
C15_RecomputedNotCompared ==
    (VerdictOnRecomputing /\ IdentityOk) =>
        /\ outcome.res.ok <=>
              /\ SumCanonical(Claimed) <= request.budget_limit
              /\ outcome.by = "validateAIOutput" =>
                    rawContent.doc.total_budget_limit = request.budget_limit
        /\ outcome.res.ok =>
              /\ \A i \in 1..Len(Claimed) : \A k \in ItemKeys :
                    outcome.res.data.products[i][k]
                        = [ Claimed[i] EXCEPT
                              !.total_cost = CanonicalLineCost(Claimed[i]) ][k]
              /\ outcome.res.finalAllocated = SumCanonical(Claimed)
              /\ outcome.by = "validateAIOutput" =>
                    outcome.res.data.allocated_budget = SumCanonical(Claimed)
        /\ (~outcome.res.ok /\ SumCanonical(Claimed) > request.budget_limit
              /\ rawContent.doc.total_budget_limit = request.budget_limit) =>
              outcome.res.error.kind = "BudgetExceeded"

\* The service accepted a candidate whose line total and allocation were
\* both wrong, and corrected them.
C15_Witness ==
    /\ VerdictOn("proposalService")
    /\ IdentityOk
    /\ WrongLineTotal
    /\ rawContent.doc.allocated_budget # SumCanonical(Claimed)
    /\ outcome.res.ok
    /\ outcome.res.finalAllocated = SumCanonical(Claimed)

\* The candidate is flawless but for the amount it claims as allocated: its
\* lines match the catalog, their totals are exact, the limit is echoed.
OnlyAllocationClaimOff ==
    /\ rawContent.fmt = "json"
    /\ IdentityOk
    /\ ~WrongLineTotal
    /\ rawContent.doc.total_budget_limit = request.budget_limit

\* C16: a candidate whose true cost (sum of quantity x canonical unit price)
\* exceeds the budget limit is refused with the budget-exceeded reason, also
\* when its allocated_budget field claims an amount within the budget.
C16_TrueCostOverBudget ==
    (VerdictOnAny /\ OnlyAllocationClaimOff
        /\ SumCanonical(Claimed) > request.budget_limit) =>
        /\ ~outcome.res.ok
        /\ outcome.res.error.kind = "BudgetExceeded"

\* C17: a candidate document with a line whose product_id is not a key of
\* the catalog lookup is refused by every verifier, whatever its other
\* fields; no accepted document holds an identifier absent from the catalog.
C17_UnknownProductRejected ==
    VerdictOnAny =>
        /\ (\E i \in 1..Len(Claimed) : Claimed[i].product_id \notin productMap)
              => ~outcome.res.ok
        /\ outcome.res.ok =>
              \A i \in 1..Len(outcome.res.data.products) :
                  outcome.res.data.products[i].product_id \in productMap

\* parseAndValidate refused a two-line document for its second line, whose
\* identifier the catalog lookup does not hold.
C17_Witness ==
    /\ VerdictOn("parseAndValidate")
    /\ rawContent.fmt = "json"
    /\ Len(Claimed) = 2
    /\ Claimed[1] = OneTote
    /\ Claimed[2].product_id \notin productMap
    /\ ~outcome.res.ok
    /\ outcome.res.error.kind = "ProductNotFound"
    /\ outcome.res.error.id = Claimed[2].product_id

\* Some line of a catalog product claims a name or a unit price that is
\* not the catalog's.
NameOrPriceOff ==
    \E i \in 1..Len(Claimed) :
        /\ Claimed[i].product_id \in productMap
        /\ \/ Claimed[i].name # ProductDocs[Claimed[i].product_id].name
           \/ Claimed[i].unit_price
                 # ProductDocs[Claimed[i].product_id].unit_price

\* C18: a candidate document with a line whose name or unit_price is not
\* exactly the catalog's is refused by every verifier; in every accepted
\* document each line's name and unit_price are the canonical ones.
C18_NameAndPriceCanonical ==
    VerdictOnAny =>
        /\ NameOrPriceOff => ~outcome.res.ok
        /\ outcome.res.ok =>
              \A i \in 1..Len(outcome.res.data.products) :
                  LET item == outcome.res.data.products[i] IN
                  /\ item.product_id \in productMap
                  /\ item.name = ProductDocs[item.product_id].name
                  /\ item.unit_price = ProductDocs[item.product_id].unit_price

\* The service refused a document whose only flaw is a name that differs
\* from the catalog's in case.
C18_Witness ==
    /\ VerdictOn("proposalService")
    /\ Len(Claimed) = 1
    /\ Claimed[1] = [ OneTote EXCEPT !.name = "tote" ]
    /\ rawContent.doc.total_budget_limit = request.budget_limit
    /\ ~outcome.res.ok
    /\ outcome.res.error.kind = "NameMismatch"

\* C19: a candidate document whose total_budget_limit is not the request's
\* budget_limit is never accepted; when that is its only flaw the reason is
\* the budget-limit mismatch.
C19_LimitEchoed ==
    (VerdictOnAny
        /\ rawContent.doc.total_budget_limit # request.budget_limit) =>
        /\ ~outcome.res.ok
        /\ (/\ rawContent.fmt = "json"
            /\ IdentityOk
            /\ ~WrongLineTotal
            /\ rawContent.doc.allocated_budget = SumCanonical(Claimed)
            /\ SumCanonical(Claimed) <= request.budget_limit)
              => outcome.res.error.kind = "BudgetLimitMismatch"

\* C20: a response that wraps a document in a markdown code fence is
\* refused as not valid JSON; no verifier strips the fence.
C20_FenceNotStripped ==
    (pc = "verified" /\ rawContent.fmt = "fenced") =>
        /\ ~outcome.res.ok
        /\ outcome.res.error.kind = "NotJSON"

----------------------------------------------------------------------------
\* Further properties of generateProposal (checked under Spec)

\* C21: the provenance of a persisted proposal is that of the accepted round:
\* the system prompt and the user prompt are the ones sent to the provider in
\* the round whose response was accepted (rejection feedback included), and
\* the raw response and the model identifier are those of that round.
C21_ProvenanceOfAcceptedRound ==
    \A i \in 1..Len(proposals) :
        LET sent == aiCalls[Len(aiCalls)]
            meta == proposals[i].ai_metadata
        IN  /\ meta.system_prompt = sent.system_prompt
            /\ meta.user_prompt = sent.user_prompt
            /\ meta.raw_response = parsed[Len(parsed)]
            /\ meta.raw_response = aiLog[Len(aiLog)].raw_response
            /\ meta.model = model

----------------------------------------------------------------------------
\* Further properties of the pure functions (checked under SpecVerify)

\* computeImpact has returned its result for the line items of a candidate.
ImpactOf == pc = "verified" /\ outcome.by = "computeImpact"

RECURSIVE SumPlastic(_)
SumPlastic(items) ==
    IF items = << >> THEN 0
    ELSE items[1].quantity * ProductDocs[items[1].product_id].plastic_saved_per_unit
         + SumPlastic(Tail(items))

RECURSIVE SumCarbon(_)
SumCarbon(items) ==
    IF items = << >> THEN 0
    ELSE items[1].quantity * ProductDocs[items[1].product_id].carbon_avoided_per_unit
         + SumCarbon(Tail(items))

\* The line items in the opposite order.
Reversed(items) == [ i \in 1..Len(items) |-> items[Len(items) + 1 - i] ]

----------------------------------------------------------------------------
\* Properties of the HTTP boundary (checked under SpecBoundary)

\* The response to a request whose generateProposal failed has been sent.
FailureAnswered ==
    /\ pc = "responded"
    /\ outcome.result # NoValue
    /\ outcome.result.kind = "threw"

\* C23: every failure of generateProposal is answered by its class: a
\* ValidationError with 422, a ProviderRateLimitError with 429 carrying the
\* computed wait, every other failure with 500; so 422 is sent for
\* validation rejections only and 500 never for one.
C23_StatusByErrorClass ==
    FailureAnswered =>
        LET err == outcome.result.error IN
        /\ err.class = "ValidationError" <=> outcome.status = 422
        /\ err.class = "ProviderRateLimitError" <=> outcome.status = 429
        /\ err.class \notin { "ValidationError", "ProviderRateLimitError" }
              <=> outcome.status = 500
        /\ outcome.status = 429 =>
              /\ outcome.data.retry_after_ms = err.retryAfterMs
              /\ outcome.retryAfter = CeilSeconds(err.retryAfterMs)

----------------------------------------------------------------------------
\* Properties of generateProposal, continued (checked under Spec)

\* C24: when the catalog read returns no items, generateProposal fails with
\* an error that is no ValidationError before any prompt is built: the run
\* makes no provider call, no log write and no persistence write, and ends
\* there (no round is started).
C24_EmptyCatalogIsFatal ==
    (pc # "find" /\ allProducts = << >>) =>
        /\ pc = "done"
        /\ outcome = Threw(SystemError("NoProducts", ""))
        /\ outcome.error.class # "ValidationError"
        /\ systemPrompt = NoValue
        /\ userPrompt = NoValue
        /\ attempt = 0
        /\ aiCalls = << >>
        /\ aiLog = << >>
        /\ parsed = << >>
        /\ createCalls = 0
        /\ proposals = << >>

\* A run over an empty collection has ended.
C24_Witness ==
    /\ productsDb = {}
    /\ pc = "done"
    /\ allProducts = << >>
    /\ outcome.kind = "threw"

\* The three budget figures of a proposal agree with the request.
BudgetFigures(p) ==
    /\ p.remaining_budget = p.total_budget_limit - p.allocated_budget
    /\ p.total_budget_limit = request.budget_limit
    /\ p.remaining_budget >= 0

\* C25: in every persisted and every returned proposal, remaining_budget is
\* total_budget_limit - allocated_budget, total_budget_limit is the
\* request's budget_limit, and remaining_budget is not negative.
C25_BudgetFiguresAgree ==
    /\ \A i \in 1..Len(proposals) : BudgetFigures(proposals[i])
    /\ outcome.kind = "returned" => BudgetFigures(outcome.value)

----------------------------------------------------------------------------
\* Properties of the controller (checked under SpecBoundary)

\* The budget_limit values the request schema must refuse: missing, not a
\* number, zero, negative, not finite.
InvalidBudgetLimits ==
    { b \in BudgetLimitValues : b.type # "number" \/ b.v <= 0 }

\* Nothing of generateProposal has happened.
PipelineUntouched ==
    /\ allProducts = << >>
    /\ systemPrompt = NoValue
    /\ attempt = 0
    /\ aiCalls = << >>
    /\ aiLog = << >>
    /\ parsed = << >>
    /\ createCalls = 0
    /\ proposals = << >>

\* C26: a request whose budget_limit is missing, not a number, zero,
\* negative or non-finite is answered with status 400 by the controller's
\* first step, and generateProposal is never invoked for it: no catalog
\* read, provider call, log write or persistence write happens.
C26_InvalidBudgetIs400 ==
    /\ [][ (pc = "received" /\ request.budget_limit \in InvalidBudgetLimits)
             => /\ pc' = "responded"
                /\ outcome'.kind = "response"
                /\ outcome'.status = 400
                /\ outcome'.ok = FALSE
                /\ outcome'.data = NoValue
                /\ PipelineUntouched' ]_pc
    /\ []( (pc = "responded" /\ outcome.status = 400) => PipelineUntouched )

\* A body with budget_limit 0 and a body without budget_limit were answered
\* with 400; here the first.
C26_Witness ==
    /\ pc = "responded"
    /\ outcome.status = 400
    /\ request.budget_limit = Num(0)
    /\ productsDb = ProductIds

----------------------------------------------------------------------------
\* Properties of parseAndValidate, continued (checked under SpecVerify)

\* The reasons of the identifier, name and unit-price checks.
IdentityReasons == { "ProductNotFound", "NameMismatch", "PriceMismatch" }

\* The reason kinds of the lowest-numbered step of the verification order
\* that the candidate fails (parse, schema, identifier/name/price of every
\* line, line totals, allocated sum, limit echo, over budget); none when it
\* passes them all.
LowestFailingStep ==
    LET doc == rawContent.doc
        sum == Round2(SumTotalCost(doc.products))
    IN  IF rawContent.fmt # "json" THEN { "NotJSON" }
        ELSE IF SchemaIssues(doc) # {} THEN { "SchemaViolation" }
        ELSE IF ~IdentityOk THEN IdentityReasons
        ELSE IF WrongLineTotal THEN { "CostMismatch" }
        ELSE IF Abs(doc.allocated_budget - sum) > Max(1, Len(doc.products)) * 1000
        THEN { "AllocatedMismatch" }
        ELSE IF doc.total_budget_limit # request.budget_limit
        THEN { "BudgetLimitMismatch" }
        ELSE IF sum > request.budget_limit THEN { "BudgetExceeded" }
        ELSE {}

\* C27: parseAndValidate reports the reason of the lowest-numbered failing
\* step of the verification order; a candidate in which one line has a wrong
\* total and another an unknown identifier, a wrong name or a wrong unit
\* price is refused for the identifier, name or price, whatever the order of
\* the lines.
C27_LowestStepReported ==
    (pc = "verified" /\ outcome.by = "parseAndValidate") =>
        IF LowestFailingStep = {}
        THEN outcome.res.ok
        ELSE /\ ~outcome.res.ok
             /\ outcome.res.error.kind \in LowestFailingStep


\* Every line passes steps 8a-8d: identifier, name, unit price and total.
LineTotalsVerify == IdentityOk /\ ~WrongLineTotal

\* The sum of the claimed line totals as parseAndValidate recomputes it.
RecomputedSum == Round2(SumTotalCost(Claimed))

\* |claimed allocated_budget - recomputed sum|
AllocationGap == Abs(rawContent.doc.allocated_budget - RecomputedSum)

\* max(1, n) for the n line items of the candidate.
AllocationTolerance == Max(1, Len(Claimed)) * 1000

\* parseAndValidate has judged a bare document whose lines all verify.
VerdictOnVerifiedLines ==
    /\ VerdictOn("parseAndValidate")
    /\ rawContent.fmt = "json"
    /\ LineTotalsVerify

RefusedForAllocation ==
    /\ ~outcome.res.ok
    /\ outcome.res.error.kind = "AllocatedMismatch"

\* C28 as stated: with line totals that all verify, the candidate is refused
\* with the allocated-mismatch reason iff the claimed allocation is more
\* than max(1, n) away from the recomputed sum, and within the tolerance it
\* is accepted, the allocation handed to Proposal.create being the
\* recomputed sum.
C28_WithinToleranceAccepted ==
    VerdictOnVerifiedLines =>
        /\ RefusedForAllocation <=> AllocationGap > AllocationTolerance
        /\ AllocationGap <= AllocationTolerance =>
              /\ outcome.res.ok
              /\ finalAllocated = RecomputedSum

\* C28, amended: with line totals that all verify, the candidate is refused
\* with the allocated-mismatch reason iff the claimed allocation is more
\* than max(1, n) away from the recomputed sum; within the tolerance it is
\* accepted exactly when the claimed limit is the request's and the
\* recomputed sum is within the budget, and the allocation handed to
\* Proposal.create is then the recomputed sum, whatever was claimed.
C28_AllocationTolerance ==
    VerdictOnVerifiedLines =>
        /\ RefusedForAllocation <=> AllocationGap > AllocationTolerance
        /\ AllocationGap <= AllocationTolerance =>
              (outcome.res.ok <=>
                  /\ rawContent.doc.total_budget_limit = request.budget_limit
                  /\ RecomputedSum <= request.budget_limit)
        /\ outcome.res.ok => finalAllocated = RecomputedSum

\* Two lines, the claimed allocation two units above their sum: accepted,
\* and the recomputed sum is what goes to Proposal.create.
C28_Witness ==
    /\ VerdictOnVerifiedLines
    /\ Len(Claimed) = 2
    /\ AllocationGap = AllocationTolerance
    /\ outcome.res.ok
    /\ finalAllocated = RecomputedSum
    /\ finalAllocated # rawContent.doc.allocated_budget


\* The accepted document carries the candidate's line items and texts
\* field for field.
SameAsClaimed(data) ==
    /\ Len(data.products) = Len(Claimed)
    /\ \A i \in 1..Len(Claimed) :
          \A k \in ItemKeys : data.products[i][k] = Claimed[i][k]
    /\ data.proposal_summary = rawContent.doc.proposal_summary
    /\ data.impact_summary = rawContent.doc.impact_summary
    /\ data.confidence_score = rawContent.doc.confidence_score

\* C29: the Output Verifier never changes the candidate: an accepted
\* document has every line item (product_id, name, quantity, unit_price,
\* total_cost), the summary, the impact narrative and the confidence score
\* as the model supplied them; a rejection carries the reason and nothing
\* of the candidate.
C29_CandidateUnchanged ==
    VerdictOnAny =>
        IF outcome.res.ok
        THEN SameAsClaimed(outcome.res.data)
        ELSE DOMAIN outcome.res = { "ok", "error" }


\* The parsed candidate has a flaw of shape: an undeclared key at the top
\* level or inside a line item, a required top-level key missing, no line
\* items, a quantity that is not positive, a negative unit price or total,
\* or a confidence score outside [0, 1].
ShapeFlaw(doc) ==
    \/ DOMAIN doc # TopKeys
    \/ /\ "products" \in DOMAIN doc
       /\ \/ Len(doc.products) = 0
          \/ \E i \in 1..Len(doc.products) :
                LET item == doc.products[i]
                    has(k) == k \in DOMAIN item
                IN  \/ DOMAIN item \ ItemKeys # {}
                    \/ has("quantity") /\ item.quantity <= 0
                    \/ has("unit_price") /\ item.unit_price < 0
                    \/ has("total_cost") /\ item.total_cost < 0
    \/ /\ "confidence_score" \in DOMAIN doc
       /\ \/ doc.confidence_score < 0
          \/ doc.confidence_score > 100

\* A verifier that runs the schema step has judged a response that parses.
VerdictAfterSchema ==
    /\ pc = "verified"
    /\ outcome.by \in { "parseAndValidate", "proposalService" }
    /\ rawContent.fmt = "json"

\* C30: the schema step refuses every parsed candidate with an undeclared
\* key, at the top level or inside a line item, a missing top-level key, an
\* empty products list, a quantity that is not a positive integer, a
\* negative price or cost, or a confidence score outside [0, 1].
C30_ShapeFlawRejected ==
    (VerdictAfterSchema /\ ShapeFlaw(rawContent.doc)) =>
        /\ ~outcome.res.ok
        /\ outcome.res.error.kind = "SchemaViolation"

----------------------------------------------------------------------------
\* Properties of generateProposal: failures after acceptance, the log, the
\* prompts (checked under Spec)

\* computeImpact is about to look up a line item whose product is no longer
\* in the collection.
ImpactLookupMisses ==
    /\ pc = "impact"
    /\ aiData.products[impactAcc.i].product_id \notin productsDb

ImpactFailed ==
    /\ outcome.kind = "threw"
    /\ outcome.error.message.kind = "ImpactProductNotFound"

\* C31: when computeImpact cannot resolve an accepted product_id, the run
\* fails with an error that is no ValidationError; no other round is
\* started, no proposal is persisted and the log entries already written
\* remain.
C31_ImpactFailureIsFatal ==
    /\ [][ (ImpactLookupMisses /\ productsDb' = productsDb) =>
              /\ pc' = "done"
              /\ outcome'.kind = "threw"
              /\ outcome'.error.class # "ValidationError"
              /\ outcome'.error.message.kind = "ImpactProductNotFound"
              /\ UNCHANGED << attempt, aiCalls, aiLog, proposals, createCalls >>
          ]_vars
    /\ []( ImpactFailed =>
              /\ pc = "done"
              /\ proposals = << >>
              /\ createCalls = 0
              /\ Len(aiLog) = Len(aiCalls)
              /\ Len(aiLog) >= 1 )

\* An accepted second round failed in computeImpact: both log entries are
\* there and nothing was persisted.
C31_Witness ==
    /\ ImpactFailed
    /\ Len(aiLog) = 2
    /\ proposals = << >>
    /\ aiData # NoValue


\* The run ended with the rejection of its last round.
Exhausted ==
    /\ outcome.kind = "threw"
    /\ outcome.error.class = "ValidationError"

\* C32: at every point of a run there is one log entry per provider response
\* received and logged, each holding the user prompt sent in its round; the
\* log only grows, by one entry at its end, and its earlier entries never
\* change; a run that ends exhausted leaves exactly MAX_VALIDATION_RETRIES
\* entries and no proposal.
C32_OneLogEntryPerResponse ==
    /\ []( /\ Len(aiLog) = Len(parsed)
           /\ Len(aiLog) <= Len(aiCalls)
           /\ Len(aiCalls) <= Len(aiLog) + 1
           /\ \A k \in 1..Len(aiLog) :
                 /\ aiLog[k].user_prompt = aiCalls[k].user_prompt
                 /\ aiLog[k].raw_response = parsed[k] )
    /\ [][ \/ aiLog' = aiLog
           \/ /\ Len(aiLog') = Len(aiLog) + 1
              /\ SubSeq(aiLog', 1, Len(aiLog)) = aiLog ]_vars
    /\ []( Exhausted =>
              /\ Len(aiLog) = MAX_VALIDATION_RETRIES
              /\ proposals = << >> )

\* An exhausted run: five entries, the later ones with the feedback prompt.
C32_Witness ==
    /\ Exhausted
    /\ Len(aiLog) = MAX_VALIDATION_RETRIES
    /\ aiLog[2].user_prompt # aiLog[1].user_prompt
    /\ aiLog[2].user_prompt = aiCalls[2].user_prompt
    /\ proposals = << >>

----------------------------------------------------------------------------
\* Properties of callGroq, continued (checked under SpecGroq)

\* Call c catches, in this step, a failure other than a 429.
CatchesOther(c) ==
    /\ calls[c].pc = "inflight"
    /\ calls'[c].pc \in { "backoff", "failed" }
    /\ calls'[c].err.status # 429

\* C33: a retryable failure other than a 429 on attempt k < maxRetries makes
\* callGroq sleep retryDelayMs x k (so the sleeps of one call grow linearly
\* with the attempt number), the next attempt does not begin before the
\* sleep is over, and the failure leaves the cooldown watermark as it was.
C33_LinearBackoff ==
    [][ \A c \in Calls :
          /\ CatchesOther(c) =>
                /\ groqRateLimitedUntil' = groqRateLimitedUntil
                /\ (isRetryable(calls'[c].err) /\ calls[c].attempt < maxRetries)
                      <=> calls'[c].pc = "backoff"
                /\ calls'[c].pc = "backoff" =>
                      /\ calls'[c].delayMs = retryDelayMs * calls[c].attempt
                      /\ calls'[c].wakeAt = now + retryDelayMs * calls[c].attempt
                      /\ calls'[c].attempt = calls[c].attempt
          /\ (calls[c].pc = "backoff" /\ calls'[c].pc # "backoff") =>
                /\ now >= calls[c].wakeAt
                /\ calls'[c].attempt = calls[c].attempt + 1
      ]_vars

\* A call sleeps after the second attempt failed with a 500: twice the
\* base delay.
C33_Witness ==
    \E c \in Calls :
        /\ calls[c].pc = "backoff"
        /\ calls[c].attempt = 2
        /\ calls[c].err.status = 500
        /\ calls[c].delayMs = 2 * retryDelayMs
        /\ calls[c].wakeAt = now + 2 * retryDelayMs

----------------------------------------------------------------------------
\* Properties of generateProposal over callGroq (checked under SpecRun and
\* SpecRunFair)

\* The run has ended: it returned the persisted proposal or threw.
Terminal == pc = "done" /\ outcome.kind \in { "returned", "threw" }

\* C34: when every provider request and every storage operation returns,
\* every run of generateProposal ends (accepted and persisted, exhausted, or
\* failed); it issues at most MAX_VALIDATION_RETRIES x maxRetries physical
\* provider requests, at most maxRetries of them in one round, and while it
\* has not ended some step can always be taken.
C34_RunTerminates ==
    /\ <>Terminal
    /\ []( /\ requestsSent <= MAX_VALIDATION_RETRIES * maxRetries
           /\ calls[RunCall].attempt <= maxRetries
           /\ Len(aiCalls) <= MAX_VALIDATION_RETRIES
           /\ requestsSent <= Len(aiCalls) * maxRetries )
    /\ []( ~Terminal => ENABLED NextRun )

\* A run that used every physical request it may use and ended exhausted.
C34_Witness ==
    /\ Terminal
    /\ requestsSent = MAX_VALIDATION_RETRIES * maxRetries
    /\ outcome.kind = "threw"
    /\ Len(aiCalls) = MAX_VALIDATION_RETRIES


----------------------------------------------------------------------------
\* Properties of the request on its way to the prompt (checked under
\* SpecRequest)

\* The user prompt handed to the provider renders the preferences prefs.
RendersPreferences(prompt, prefs) ==
    /\ prefs.category_focus # << >>
           => prompt.categories = prefs.category_focus
    /\ prefs.sustainability_priority # ""
           => prompt.priority = prefs.sustainability_priority
    /\ prompt.categories = << "N/A" >> => prefs.category_focus = << >>
    /\ prompt.priority = "N/A" => prefs.sustainability_priority = ""

\* C35: once generateProposal, in either revision, has been handed an accepted
\* request and has called the provider, the user prompt it sent carries the
\* request's category focus and sustainability priority whenever they are
\* non-empty, and shows "N/A" for one only when the request gave none.
C35_PromptCarriesPreferences ==
    pc \in { "callAI", "callAIService" }
        => RendersPreferences(aiCalls[1].user_prompt, request.preferences)

\* The body carries budget_limit, a positive number, and nothing else.
OnlyBudgetLimit(body) ==
    /\ DOMAIN body = { "budget_limit" }
    /\ body.budget_limit.type = "number"
    /\ body.budget_limit.v > 0

\* C36: a body that carries only budget_limit is accepted, and the parsed
\* result handed on has client_name "" and, at its top level, a
\* category_focus that is the empty list.
C36_OnlyBudgetLimitDefaults ==
    [][ (pc = "received" /\ OnlyBudgetLimit(request))
            => /\ pc' = "find"
               /\ request'.client_name = ""
               /\ "category_focus" \in DOMAIN request'
               /\ request'.category_focus = << >> ]_pc

----------------------------------------------------------------------------
\* Properties of the watermark on the last attempt (checked under SpecGroq)

\* C37: every 429 that callGroq receives, the one on the final attempt of a
\* call included (that call then fails without sleeping), puts the shared
\* watermark at the time of receipt plus the delay computed for it, or later;
\* the watermark is not lowered afterwards, and a call that starts reads it:
\* it issues its first request at once only when the watermark has passed,
\* and otherwise sleeps until the watermark it read and issues its first
\* request no earlier.
C37_Every429MovesWatermark ==
    [][ /\ groqRateLimitedUntil' >= groqRateLimitedUntil
        /\ \A c \in Calls :
            /\ Receives429(c) =>
                  /\ groqRateLimitedUntil' >= now + calls'[c].delayMs
                  /\ calls'[c].delayMs > 0
                  /\ calls[c].attempt = maxRetries =>
                        /\ calls'[c].pc = "failed"
                        /\ calls'[c].error = "ProviderRateLimitError"
            /\ (calls[c].pc = "idle" /\ Issues(c))
                  => now >= groqRateLimitedUntil
            /\ (calls[c].pc = "idle" /\ calls'[c].pc = "cooling")
                  => calls'[c].wakeAt >= groqRateLimitedUntil
            /\ (calls[c].pc = "cooling" /\ calls[c].attempt = 1 /\ Issues(c))
                  => now >= calls[c].wakeAt
      ]_groqVars

\* The first call has just failed on a 429 at its final attempt, no other
\* call has received a 429, and the second call, started after that, sleeps
\* until the time of that 429 plus its delay before its first request.
C37_Witness ==
    /\ calls["c1"].pc = "failed"
    /\ calls["c1"].attempt = maxRetries
    /\ calls["c1"].lastStatus = 429
    /\ groqRateLimitedUntil = now + calls["c1"].delayMs
    /\ calls["c2"].pc = "cooling"
    /\ calls["c2"].attempt = 1
    /\ calls["c2"].lastStatus # 429
    /\ calls["c2"].wakeAt = now + calls["c1"].delayMs
    /\ calls["c3"].pc = "idle"

----------------------------------------------------------------------------
\* Properties of an empty completion (checked under SpecRun)

\* The step in which the request in flight comes back without content.
ComesBackEmpty ==
    /\ pc = "callAI"
    /\ calls[RunCall].pc = "inflight"
    /\ calls'[RunCall].pc # "inflight"
    /\ calls'[RunCall].err = EmptyContentError

\* C38: a response without content makes callGroq fail at once with the
\* generic provider error, on whichever attempt it comes: the call issues no
\* further request, the watermark stays as it was, and generateProposal ends
\* with that error without a log entry for the round.
C38_EmptyContentFailsAtOnce ==
    /\ [][ ComesBackEmpty =>
              /\ calls'[RunCall].pc = "failed"
              /\ calls'[RunCall].error = "Error"
              /\ pc' = "done"
              /\ outcome'.kind = "threw"
              /\ outcome'.error.class = "Error"
              /\ requestsSent' = requestsSent
              /\ groqRateLimitedUntil' = groqRateLimitedUntil
              /\ aiLog' = aiLog
              /\ Len(aiLog') = Len(aiCalls') - 1 ]_vars
    /\ []( (calls[RunCall].pc = "failed"
              /\ calls[RunCall].err = EmptyContentError)
            => /\ Terminal
               /\ ~ENABLED NextRun
               /\ Len(aiLog) = attempt - 1 )

\* The second round's call has failed on an empty completion at its second
\* attempt, after a first attempt that was retried.
C38_Witness ==
    /\ calls[RunCall].pc = "failed"
    /\ calls[RunCall].err = EmptyContentError
    /\ calls[RunCall].attempt = 2
    /\ attempt = 2
    /\ Len(aiLog) = 1
    /\ requestsSent = 3
    /\ outcome.kind = "threw"

----------------------------------------------------------------------------
\* Properties of the prompts across rounds (checked under Spec)

\* C39: across the rounds of one run the system prompt is the same; round 1
\* is sent the original user prompt, without feedback, and round k+1 is sent
\* the original user prompt followed by exactly one feedback paragraph, the
\* one for the rejection of round k: reasons of earlier rounds are not
\* carried along.
C39_PromptsDoNotAccumulate ==
    \A k \in 1..Len(aiCalls) :
        /\ aiCalls[k].system_prompt = systemPrompt
        /\ aiCalls[k].system_prompt = aiCalls[1].system_prompt
        /\ [ aiCalls[k].user_prompt EXCEPT !.feedback = << >> ] = userPrompt
        /\ userPrompt.feedback = << >>
        /\ IF k = 1
           THEN aiCalls[k].user_prompt.feedback = << >>
           ELSE /\ Len(parsed) >= k - 1
                /\ ~Verdict(k - 1).ok
                /\ aiCalls[k].user_prompt.feedback
                     = << [ error |-> Verdict(k - 1).error,
                            budget_reminder |-> request.budget_limit ] >>

\* A third round has been sent after two rejections with different reasons:
\* its prompt carries the second reason and not the first.
C39_Witness ==
    /\ pc = "callAI"
    /\ Len(aiCalls) = 3
    /\ Len(parsed) = 2
    /\ Verdict(1).error # Verdict(2).error
    /\ Len(aiCalls[3].user_prompt.feedback) = 1
    /\ aiCalls[3].user_prompt.feedback[1].error = Verdict(2).error
    /\ aiCalls[3].user_prompt.feedback[1].error # Verdict(1).error


====
